---- MODULE Spec2Model ----
(***************************************************************************)
(* A model of juce::Component (juce_Component.cpp): the component tree,    *)
(* the process-wide keyboard focus, the heavyweight-peer flag, modal       *)
(* state, mouse-event dispatch with liveness checks, mouse listeners,      *)
(* coordinate conversion, clip regions, painting and hit-testing, moving   *)
(* and resizing, repainting, tab traversal and the messages posted to the  *)
(* message thread; and of the Introjucer's StoredSettings                  *)
(* (jucer_StoredSettings.cpp), which reloads its properties file.          *)
(*                                                                         *)
(* The program state is kept in the variables below.  Every operation of   *)
(* the class is an operator from a state record (the variables' values     *)
(* plus the transient observations of the running operation) to a state    *)
(* record, so that operations can call each other as the code does; an     *)
(* action applies one public operation to the current state.               *)
(***************************************************************************)
EXTENDS Integers, Sequences, FiniteSets, TLC

\* ------------------------------------------------------------------ bounds
NumComps == 3        \* number of Component objects constructed
MaxCoord == 1        \* positions range over -MaxCoord..MaxCoord
MaxSize == 2         \* widths range over 1..MaxSize
IntBits == 16        \* width of an int

Null == 0
Comps == 1 .. NumComps

VARIABLES
    alive,                      \* objects constructed and not yet destroyed
    parentComponent,            \* Component::parentComponent
    childComponentList,         \* Component::childComponentList
    flags,                      \* Component::flags (the bits the model reads)
    bounds,                     \* Component::bounds
    currentlyFocusedComponent,  \* static Component::currentlyFocusedComponent
    modalStack,                 \* ModalComponentManager's stack of items
    mouseListeners,             \* Component::mouseListeners
    messageQueue,               \* the CallbackMessages posted, not yet delivered
    settings,                   \* the StoredSettings object and its files
    last                        \* what the last operation was and what it did

vars == << alive, parentComponent, childComponentList, flags, bounds,
           currentlyFocusedComponent, modalStack, mouseListeners,
           messageQueue, settings, last >>

\* ------------------------------------------------------------ state record
FlagNames == { "visibleFlag", "hasHeavyweightPeerFlag", "alwaysOnTopFlag",
               "wantsFocusFlag", "isDisabledFlag", "childCompFocusedFlag",
               "currentlyModalFlag", "opaqueFlag", "ignoresMouseClicksFlag",
               "allowChildMouseClicksFlag", "bringToFrontOnClickFlag",
               "dontFocusOnMouseClickFlag", "mouseInsideFlag", "mouseOverFlag",
               "mouseDownFlag" }

\* componentFlags (0) in the constructor: every bit clear
NoFlags == [f \in FlagNames |-> FALSE]

\* a component without mouse listeners (mouseListeners is null, or its list
\* is empty): the array of listeners, the deep ones first, and their number
NoListeners == [ listeners |-> << >>, numDeepMouseListeners |-> 0 ]

Rect(x, y, w, h) == [x |-> x, y |-> y, w |-> w, h |-> h]

\* the record of the last operation: its name, what of its arguments
\* a claim is about, the component it was called on (for the mouse events), the callbacks it invoked and the value that
\* currentlyFocusedComponent had when each was entered (kept where a claim is
\* about them), whether it touched
\* a destroyed object, changed the hierarchy with the lock unasserted, or ran
\* into unbounded recursion
NoOp == [ name |-> "none", arg |-> FALSE, this |-> Null, modal |-> Null,
          log |-> << >>,
          focusAt |-> << >>, entered |-> {},
          uaf |-> FALSE, uncheckedMutation |-> FALSE, crashed |-> FALSE ]

\* The transient part of a state record: the callbacks the running operation
\* has invoked, whether it touched a destroyed object, whether it changed the
\* hierarchy before the message-manager lock was asserted, whether it ran
\* into unbounded recursion, and the environment's choices for it.
Transient == [ log |-> << >>, focusAt |-> << >>, uaf |-> FALSE, lockChecked |-> FALSE,
               uncheckedMutation |-> FALSE, crashed |-> FALSE,
               killer |-> "none", killerOn |-> Null, victim |-> Null,
               destructing |-> {}, peerFocused |-> TRUE, doubleClick |-> FALSE,
               reactor |-> Null, reaction |-> << "none" >>, this |-> Null,
               dismisses |-> FALSE, isThisTheMessageThread |-> TRUE,
               traversed |-> Null, nextComp |-> Null,
               ret |-> Null ]

Cur == [ alive |-> alive, parentComponent |-> parentComponent,
         childComponentList |-> childComponentList, flags |-> flags,
         bounds |-> bounds,
         currentlyFocusedComponent |-> currentlyFocusedComponent,
         modalStack |-> modalStack,
         mouseListeners |-> mouseListeners,
         messageQueue |-> messageQueue ] @@ Transient

\* ------------------------------------------------------- small helpers
Min(a, b) == IF a < b THEN a ELSE b
Max(a, b) == IF a > b THEN a ELSE b

\* Array<Component*>::operator[]: the element, or null outside the range
At(list, i) == IF i >= 0 /\ i < Len(list) THEN list[i + 1] ELSE Null

\* Array::getUnchecked
GetUnchecked(list, i) == list[i + 1]

\* Array::indexOf: the first index holding c, or -1
IndexOf(list, c) ==
    IF \E i \in 1 .. Len(list) : list[i] = c
    THEN (CHOOSE i \in 1 .. Len(list) :
              list[i] = c /\ \A j \in 1 .. (i - 1) : list[j] # c) - 1
    ELSE -1

\* Array::remove (index): nothing happens outside the range
ArrayRemove(list, i) ==
    IF i >= 0 /\ i < Len(list)
    THEN SubSeq(list, 1, i) \o SubSeq(list, i + 2, Len(list))
    ELSE list

\* Array::insert (index, value): appended when the index is out of range
ArrayInsert(list, i, c) ==
    IF i >= 0 /\ i < Len(list)
    THEN SubSeq(list, 1, i) \o << c >> \o SubSeq(list, i + 1, Len(list))
    ELSE Append(list, c)

\* Array::move (from, to): a destination out of range means the end
ArrayMove(list, from, to) ==
    IF from = to \/ from < 0 \/ from >= Len(list)
    THEN list
    ELSE LET dest == IF to >= 0 /\ to < Len(list) THEN to ELSE Len(list) - 1
             c == list[from + 1]
             without == ArrayRemove(list, from)
         IN  SubSeq(without, 1, dest) \o << c >>
                 \o SubSeq(without, dest + 1, Len(without))

\* A dereference of a Component pointer: of a destroyed object (one whose
\* destructor has returned) it is undefined behaviour.
Touch(S, c) ==
    IF c = Null \/ c \in S.alive \/ c \in S.destructing
    THEN S
    ELSE [S EXCEPT !.uaf = TRUE]

\* WeakReference<Component> != nullptr (BailOutChecker::shouldBailOut negated):
\* the master reference is cleared at the start of the destructor.
IsAlive(S, c) == c # Null /\ c \in S.alive

ShouldBailOut(S, c) == ~ IsAlive(S, c)

\* CHECK_MESSAGE_MANAGER_IS_LOCKED
CheckMessageManagerIsLocked(S) == [S EXCEPT !.lockChecked = TRUE]

\* a write to a child list or a parent pointer: was the lock asserted first?
HierarchyWrite(S) ==
    [S EXCEPT !.uncheckedMutation = @ \/ ~ S.lockChecked]

SetFlag(S, c, f, v) == [S EXCEPT !.flags[c][f] = v]

Log(S, name, c) ==
    [S EXCEPT !.log = Append(@, << name, c >>),
              !.focusAt = Append(@, S.currentlyFocusedComponent)]

\* one statement after another: the rest of an operation, K, goes on from
\* the state S that the statements before it have left
Then(S, K(_)) == K(S)

\* ---------------------------------------------------- tree queries
RECURSIVE isParentOf(_, _, _)
isParentOf(S, this, possibleChild) ==
    IF possibleChild = Null
    THEN FALSE
    ELSE LET p == S.parentComponent[possibleChild]
         IN  IF p = this THEN TRUE ELSE isParentOf(S, this, p)

RECURSIVE getTopLevelComponent(_, _)
getTopLevelComponent(S, this) ==
    IF S.parentComponent[this] # Null
    THEN getTopLevelComponent(S, S.parentComponent[this])
    ELSE this

\* Component::getPeer: the component that owns the peer, or Null
RECURSIVE getPeer(_, _)
getPeer(S, this) ==
    IF S.flags[this].hasHeavyweightPeerFlag
    THEN this
    ELSE IF S.parentComponent[this] = Null
         THEN Null
         ELSE getPeer(S, S.parentComponent[this])

\* (a peer is taken not to be minimised)
RECURSIVE isShowing(_, _)
isShowing(S, this) ==
    IF S.flags[this].visibleFlag
    THEN IF S.parentComponent[this] # Null
         THEN isShowing(S, S.parentComponent[this])
         ELSE getPeer(S, this) # Null
    ELSE FALSE

RECURSIVE isEnabled(_, _)
isEnabled(S, this) ==
    (~ S.flags[this].isDisabledFlag)
        /\ (S.parentComponent[this] = Null
               \/ isEnabled(S, S.parentComponent[this]))

hasKeyboardFocus(S, this, trueIfChildIsFocused) ==
    (S.currentlyFocusedComponent = this)
        \/ (trueIfChildIsFocused
               /\ isParentOf(S, this, S.currentlyFocusedComponent))

\* the components on the parent chain of c, c included
RECURSIVE Chain(_, _)
Chain(S, c) ==
    IF c = Null THEN {} ELSE {c} \cup Chain(S, S.parentComponent[c])

\* true when giving child the parent newParent closes a cycle
WouldCycle(S, newParent, child) == child \in Chain(S, newParent)

\* ------------------------------------------- the modal manager (not in src)
\* ModalComponentManager::getModalComponent (0): the topmost active item
RECURSIVE TopActive(_, _)
TopActive(stack, i) ==
    IF i < 1 THEN Null
    ELSE IF stack[i].isActive THEN stack[i].component
         ELSE TopActive(stack, i - 1)

getCurrentlyModalComponent(S) == TopActive(S.modalStack, Len(S.modalStack))

\* ModalComponentManager::startModal
startModal(S, c) ==
    [S EXCEPT !.modalStack = Append(@, [component |-> c, isActive |-> TRUE])]

\* ModalComponentManager::endModal and ModalItem::cancel: every item of the
\* component becomes inactive (handleAsyncUpdate drops it later)
endModal(S, c) ==
    [S EXCEPT !.modalStack =
        [i \in 1 .. Len(@) |->
            IF @[i].component = c THEN [@[i] EXCEPT !.isActive = FALSE] ELSE @[i]]]

\* ------------------------------------------------- callbacks and deletion
RECURSIVE Destroy(_, _)
RECURSIVE removeChildComponent(_, _, _, _, _)
RECURSIVE giveAwayFocus(_, _)
RECURSIVE internalFocusLoss(_, _, _)
RECURSIVE internalFocusGain(_, _, _)
RECURSIVE internalChildFocusChange(_, _, _)
RECURSIVE takeKeyboardFocus(_, _, _)
RECURSIVE grabFocusInternal(_, _, _, _)
RECURSIVE internalHierarchyChanged(_, _)
RECURSIVE HierarchyChangedLoop(_, _, _)
RECURSIVE internalChildrenChanged(_, _)
RECURSIVE Callback(_, _, _)
RECURSIVE ListenerCall(_, _, _)
RECURSIVE removeFromDesktop(_, _)

\* The code a subclass or a listener runs inside a callback: the base class
\* does nothing; the one override the model lets the environment install
\* deletes the component S.victim when callback S.killer is invoked on
\* S.killerOn.
Overridden(S, name, c) ==
    S.killer = name /\ S.killerOn = c /\ IsAlive(S, S.victim)

\* the override deletes the victim; the log notes when the delete has returned
RunOverride(S, name, c) ==
    IF Overridden(S, name, c)
    THEN Log(Destroy([S EXCEPT !.killer = "none"], S.victim), "deleted", S.victim)
    ELSE S

\* a virtual method of component c is called
Callback(S, name, c) == RunOverride(Log(Touch(S, c), name, c), name, c)

\* the listeners registered with component c (Null: with the Desktop) are called
ListenerCall(S, name, c) == RunOverride(Log(S, name, c), name, c)

\* Component::repaintParent / internalRepaint: only the lock assertion of
\* internalRepaint matters to the hierarchy
repaintParent(S, this) ==
    IF S.flags[this].visibleFlag THEN CheckMessageManagerIsLocked(S) ELSE S

\* ----------------------------------------------------------- focus
internalChildFocusChange(S, this, cause) ==
    LET childIsNowFocused == hasKeyboardFocus(S, this, TRUE)
        changed == S.flags[this].childCompFocusedFlag # childIsNowFocused
    IN
    Then(IF changed
         THEN Callback(SetFlag(S, this, "childCompFocusedFlag", childIsNowFocused),
                       "focusOfChildComponentChanged", this)
         ELSE S, LAMBDA S1 :
    IF changed /\ ~ IsAlive(S1, this)
    THEN S1
    ELSE IF S1.parentComponent[this] # Null
         THEN internalChildFocusChange(S1, S1.parentComponent[this], cause)
         ELSE S1)

\* focusGained (cause): the record has the cause of a focus change that
\* was not made directly
WithCause(S, cause) ==
    IF cause = "focusChangedDirectly" THEN S ELSE Log(S, cause, Null)

internalFocusGain(S, this, cause) ==
    Then(Callback(WithCause(S, cause), "focusGained", this), LAMBDA S1 :
    IF IsAlive(S1, this) THEN internalChildFocusChange(S1, this, cause) ELSE S1)

internalFocusLoss(S, this, cause) ==
    Then(Callback(S, "focusLost", this), LAMBDA S1 :
    IF IsAlive(S1, this) THEN internalChildFocusChange(S1, this, cause) ELSE S1)

\* a plausible slip: the focus-loss event is sent but the focus pointer is
\* left as it was
giveAwayFocus_NotCleared(S, sendFocusLossEvent) ==
    LET componentLosingFocus == S.currentlyFocusedComponent
    IN  IF sendFocusLossEvent /\ componentLosingFocus # Null
        THEN internalFocusLoss(S, componentLosingFocus, "focusChangedDirectly")
        ELSE S

\* Component::giveAwayFocus
giveAwayFocus(S, sendFocusLossEvent) ==
    LET componentLosingFocus == S.currentlyFocusedComponent
        S1 == [S EXCEPT !.currentlyFocusedComponent = Null]
    IN  IF sendFocusLossEvent /\ componentLosingFocus # Null
        THEN internalFocusLoss(S1, componentLosingFocus, "focusChangedDirectly")
        ELSE S1

\* a plausible slip: focusGained is sent without looking where the focus is
\* after the callbacks of the component that lost it
takeKeyboardFocus_GainUnchecked(S, this, cause) ==
    IF S.currentlyFocusedComponent # this
           /\ getPeer(S, this) # Null
           /\ S.peerFocused
    THEN LET componentLosingFocus == S.currentlyFocusedComponent
             S1 == [S EXCEPT !.currentlyFocusedComponent = this]
         IN
         Then(IF IsAlive(S1, componentLosingFocus)
              THEN internalFocusLoss(S1, componentLosingFocus, cause)
              ELSE S1, LAMBDA S2 :
         internalFocusGain(S2, this, cause))
    ELSE S

\* Component::takeKeyboardFocus
takeKeyboardFocus(S, this, cause) ==
    IF S.currentlyFocusedComponent # this
           /\ getPeer(S, this) # Null
           /\ S.peerFocused
    THEN LET componentLosingFocus == S.currentlyFocusedComponent
             S1 == [S EXCEPT !.currentlyFocusedComponent = this]
         IN
         Then(IF IsAlive(S1, componentLosingFocus)
              THEN internalFocusLoss(S1, componentLosingFocus, cause)
              ELSE S1, LAMBDA S2 :
         IF S2.currentlyFocusedComponent = this
         THEN internalFocusGain(S2, this, cause)
         ELSE S2)
    ELSE S

\* KeyboardFocusTraverser::getDefaultComponent (not in src): the first
\* component, in depth-first child order, that is visible, enabled and wants
\* the keyboard focus
RECURSIVE FocusableIn(_, _, _)
FocusableIn(S, list, i) ==
    IF i > Len(list) THEN << >>
    ELSE LET c == list[i]
             own == IF S.flags[c].visibleFlag /\ isEnabled(S, c)
                    THEN (IF S.flags[c].wantsFocusFlag THEN << c >> ELSE << >>)
                             \o FocusableIn(S, S.childComponentList[c], 1)
                    ELSE << >>
         IN  own \o FocusableIn(S, list, i + 1)

getDefaultComponent(S, this) ==
    LET comps == FocusableIn(S, S.childComponentList[this], 1)
    IN  IF Len(comps) > 0 THEN comps[1] ELSE Null

grabFocusInternal(S, this, cause, canTryParent) ==
    IF ~ isShowing(S, this) THEN S
    ELSE IF S.flags[this].wantsFocusFlag
               /\ (isEnabled(S, this) \/ S.parentComponent[this] = Null)
    THEN takeKeyboardFocus(S, this, cause)
    ELSE IF isParentOf(S, this, S.currentlyFocusedComponent)
               /\ isShowing(S, S.currentlyFocusedComponent)
    THEN S
    ELSE LET defaultComp == getDefaultComponent(S, this)
         IN  IF defaultComp # Null
             THEN grabFocusInternal(S, defaultComp, cause, FALSE)
             ELSE IF canTryParent /\ S.parentComponent[this] # Null
                  THEN grabFocusInternal(S, S.parentComponent[this], cause, TRUE)
                  ELSE S

grabKeyboardFocus(S, this) ==
    grabFocusInternal(CheckMessageManagerIsLocked(S), this,
                      "focusChangedDirectly", TRUE)

\* ----------------------------------------------------- hierarchy changes
internalChildrenChanged(S, this) ==
    Then(Callback(S, "childrenChanged", this), LAMBDA S1 :
    IF ShouldBailOut(S1, this) THEN S1
    ELSE ListenerCall(S1, "componentChildrenChanged", this))

\* the loop of internalHierarchyChanged over the children, from the last
HierarchyChangedLoop(S, this, i) ==
    IF i - 1 < 0 THEN S
    ELSE Then(internalHierarchyChanged(
                  S, GetUnchecked(S.childComponentList[this], i - 1)), LAMBDA S1 :
         IF ShouldBailOut(S1, this) THEN S1
         ELSE HierarchyChangedLoop(
                  S1, this, Min(i - 1, Len(S1.childComponentList[this]))))

internalHierarchyChanged(S, this) ==
    Then(Callback(S, "parentHierarchyChanged", this), LAMBDA S1 :
    IF ShouldBailOut(S1, this) THEN S1
    ELSE
    Then(ListenerCall(S1, "componentParentHierarchyChanged", this), LAMBDA S2 :
    IF ShouldBailOut(S2, this) THEN S2
    ELSE HierarchyChangedLoop(S2, this, Len(S2.childComponentList[this]))))

removeFromDesktop(S, this) ==
    LET S1 == CheckMessageManagerIsLocked(S)
    IN  IF S1.flags[this].hasHeavyweightPeerFlag
        THEN SetFlag(S1, this, "hasHeavyweightPeerFlag", FALSE)
        ELSE S1

\* a plausible slip: the index is clamped into the list instead of checked
ChildAt_Clamped(S, this, index) ==
    LET list == S.childComponentList[this]
    IN  IF Len(list) = 0 THEN Null
        ELSE list[Max(1, Min(Len(list), index + 1))]

\* Component* const child = childComponentList [index];
ChildAt(S, this, index) == At(S.childComponentList[this], index)

removeChildComponent(S, this, index, sendParentEvents0, sendChildEvents) ==
    LET S0 == CheckMessageManagerIsLocked(S)
        child == ChildAt(S0, this, index)
    IN
    IF child = Null THEN [S0 EXCEPT !.ret = Null]
    ELSE
    LET sendParentEvents == sendParentEvents0 /\ isShowing(S0, child)
        S1 == IF sendParentEvents THEN repaintParent(S0, child) ELSE S0
        S2 == HierarchyWrite(
                 [S1 EXCEPT !.childComponentList[this] = ArrayRemove(@, index),
                            !.parentComponent[child] = Null])
        focusInside == S2.currentlyFocusedComponent = child
                          \/ isParentOf(S2, child, S2.currentlyFocusedComponent)
        sendLoss == sendChildEvents \/ S2.currentlyFocusedComponent # child
    IN
    Then(IF focusInside THEN giveAwayFocus(S2, sendLoss) ELSE S2, LAMBDA S3 :
    IF focusInside /\ sendParentEvents /\ ~ IsAlive(S3, this)
    THEN [S3 EXCEPT !.ret = child]
    ELSE
    Then(IF focusInside /\ sendParentEvents
         THEN grabKeyboardFocus(S3, this)
         ELSE S3, LAMBDA S4 :
    Then(IF sendChildEvents
         THEN internalHierarchyChanged(Touch(S4, child), child)
         ELSE S4, LAMBDA S5 :
    Then(IF sendParentEvents
         THEN internalChildrenChanged(Touch(S5, this), this)
         ELSE S5, LAMBDA S6 :
    [S6 EXCEPT !.ret = child]))))

\* Component::~Component, and the end of the object's lifetime
RECURSIVE RemoveChildrenInDestructor(_, _)
RemoveChildrenInDestructor(S, this) ==
    IF Len(S.childComponentList[this]) > 0
    THEN RemoveChildrenInDestructor(
             removeChildComponent(S, this, Len(S.childComponentList[this]) - 1,
                                  FALSE, TRUE),
             this)
    ELSE S

\* a plausible slip: a component without a parent keeps the focus
DetachInDestructor_KeepsFocus(S, this) ==
    LET p == S.parentComponent[this]
    IN  IF p # Null
        THEN removeChildComponent(S, p, IndexOf(S.childComponentList[p], this),
                                  TRUE, FALSE)
        ELSE S

\* the destructor leaves its parent, or else gives the focus away
DetachInDestructor(S, this) ==
    LET p == S.parentComponent[this]
    IN  IF p # Null
        THEN removeChildComponent(S, p, IndexOf(S.childComponentList[p], this),
                                  TRUE, FALSE)
        ELSE IF S.currentlyFocusedComponent = this
                   \/ isParentOf(S, this, S.currentlyFocusedComponent)
             THEN giveAwayFocus(S, S.currentlyFocusedComponent # this)
             ELSE S

Destroy(S, this) ==
    Then(ListenerCall(S, "componentBeingDeleted", this), LAMBDA S1 :
    \* ModalItem::componentBeingDeleted cancels the component's modal item;
    \* weakReferenceMaster.clear()
    Then([endModal(S1, this) EXCEPT !.alive = @ \ {this},
                                    !.destructing = @ \cup {this}], LAMBDA S2 :
    Then(RemoveChildrenInDestructor(S2, this), LAMBDA S3 :
    Then(DetachInDestructor(S3, this), LAMBDA S4 :
    Then(IF S4.flags[this].hasHeavyweightPeerFlag
         THEN removeFromDesktop(S4, this)
         ELSE S4, LAMBDA S5 :
    \* the members are destroyed with the object
    [S5 EXCEPT !.destructing = @ \ {this},
               !.flags[this] = NoFlags,
               !.bounds[this] = Rect(0, 0, 0, 0),
               !.mouseListeners[this] = NoListeners])))))

\* ---------------------------------------------------- coordinate spaces
Point(x, y) == [x |-> x, y |-> y]

\* an int of IntBits bits: an addition that overflows wraps round
MinInt == - (2 ^ (IntBits - 1))
MaxInt == 2 ^ (IntBits - 1) - 1
WrapInt(v) == ((v - MinInt) % (2 ^ IntBits)) + MinInt

getPosition(S, comp) == Point(S.bounds[comp].x, S.bounds[comp].y)

\* Point::operator+ / operator- and Rectangle::operator+ / operator- (a
\* translation of the origin; a rectangle keeps its size)
Translated(p, dx, dy) == [p EXCEPT !.x = WrapInt(@ + dx), !.y = WrapInt(@ + dy)]

\* (affineTransform == nullptr: transforms are not modelled)
convertFromParentSpace(S, comp, p) ==
    Translated(p, - S.bounds[comp].x, - S.bounds[comp].y)

\* a plausible slip: only the x coordinate is moved
convertToParentSpace_OnlyX(S, comp, p) == Translated(p, S.bounds[comp].x, 0)

convertToParentSpace(S, comp, p) ==
    Translated(p, S.bounds[comp].x, S.bounds[comp].y)

RECURSIVE convertFromDistantParentSpace(_, _, _, _)
convertFromDistantParentSpace(S, parent, target, coordInParent) ==
    LET directParent == S.parentComponent[target]
    IN  IF directParent = parent
        THEN convertFromParentSpace(S, target, coordInParent)
        ELSE convertFromParentSpace(
                 S, target,
                 convertFromDistantParentSpace(S, parent, directParent, coordInParent))

\* ComponentPeer::localToGlobal / globalToLocal (not in src): the peer's window
\* is where the bounds of its component say
localToGlobal(S, comp, p) == Translated(p, S.bounds[comp].x, S.bounds[comp].y)
globalToLocal(S, comp, p) == Translated(p, - S.bounds[comp].x, - S.bounds[comp].y)

\* the while loop of convertCoordinate: << source, p >> when it is left, or
\* << "ret", p >> when the loop returns
RECURSIVE ConvertLoop(_, _, _, _)
ConvertLoop(S, target, source, p) ==
    IF source = Null THEN << "out", p >>
    ELSE IF source = target THEN << "ret", p >>
    ELSE IF target # Null /\ isParentOf(S, source, target)
    THEN << "ret", convertFromDistantParentSpace(S, source, target, p) >>
    ELSE IF S.flags[source].hasHeavyweightPeerFlag
    THEN << "out", localToGlobal(S, source, p) >>
    ELSE ConvertLoop(S, target, S.parentComponent[source],
                     convertToParentSpace(S, source, p))

convertCoordinate(S, target, source, p0) ==
    LET r == ConvertLoop(S, target, source, p0)
        p == r[2]
    IN  IF r[1] = "ret" THEN p
        ELSE IF target = Null THEN p
        ELSE LET topLevelComp == getTopLevelComponent(S, target)
                 q == IF S.flags[topLevelComp].hasHeavyweightPeerFlag
                      THEN globalToLocal(S, topLevelComp, p)
                      ELSE convertFromParentSpace(S, topLevelComp, p)
             IN  IF topLevelComp = target THEN q
                 ELSE convertFromDistantParentSpace(S, topLevelComp, target, q)

getLocalPoint(S, this, source, point) == convertCoordinate(S, this, source, point)

getScreenPosition(S, this) == convertCoordinate(S, Null, this, Point(0, 0))

\* ------------------------------------------------------------- areas
\* Rectangle<int> (not in src): the points of a rectangle, its intersection
\* with another (the empty rectangle when they do not overlap)
RectPoints(r) ==
    { Point(x, y) : x \in r.x .. r.x + r.w - 1, y \in r.y .. r.y + r.h - 1 }

isEmpty(r) == r.w <= 0 \/ r.h <= 0

getIntersection(r, other) ==
    LET x == Max(r.x, other.x)
        w == Min(r.x + r.w, other.x + other.w) - x
        y == Max(r.y, other.y)
        h == Min(r.y + r.h, other.y + other.h) - y
    IN  IF w > 0 /\ h > 0 THEN Rect(x, y, w, h) ELSE Rect(0, 0, 0, 0)

getLocalBounds(S, comp) == Rect(0, 0, S.bounds[comp].w, S.bounds[comp].h)

\* a plausible slip: the area is not clipped by the parent
getUnclippedArea_NoParentClip(S, comp) == getLocalBounds(S, comp)

RECURSIVE getUnclippedArea(_, _)
getUnclippedArea(S, comp) ==
    LET r == getLocalBounds(S, comp)
        p == S.parentComponent[comp]
    IN  IF p # Null
        THEN getIntersection(r, convertFromParentSpace(S, comp, getUnclippedArea(S, p)))
        ELSE r

\* ComponentHelpers::subtractObscuredRegions; result is the set of points of
\* the RectangleList, i the loop counter
RECURSIVE subtractObscuredRegions(_, _, _, _, _, _, _)
subtractObscuredRegions(S, comp, i, result, delta, clipRect, compToAvoid) ==
    IF i - 1 < 0 THEN result
    ELSE
    LET c == GetUnchecked(S.childComponentList[comp], i - 1)
        r1 == IF c # compToAvoid /\ S.flags[c].visibleFlag
              THEN IF S.flags[c].opaqueFlag
                   THEN result \ RectPoints(
                            Translated(getIntersection(S.bounds[c], clipRect),
                                       delta.x, delta.y))
                   ELSE subtractObscuredRegions(
                            S, c, Len(S.childComponentList[c]), result,
                            Translated(delta, S.bounds[c].x, S.bounds[c].y),
                            Translated(getIntersection(clipRect, S.bounds[c]),
                                       - S.bounds[c].x, - S.bounds[c].y),
                            compToAvoid)
              ELSE result
    IN  subtractObscuredRegions(S, comp, i - 1, r1, delta, clipRect, compToAvoid)

getVisibleArea(S, this, includeSiblings) ==
    LET unclipped == getUnclippedArea(S, this)
    IN  IF ~ isEmpty(unclipped)
        THEN LET r0 == RectPoints(unclipped)
                 c == getTopLevelComponent(S, this)
                 r1 == IF includeSiblings
                       THEN subtractObscuredRegions(
                                S, c, Len(S.childComponentList[c]), r0,
                                getLocalPoint(S, this, c, Point(0, 0)),
                                getLocalBounds(S, c), this)
                       ELSE r0
             IN  subtractObscuredRegions(
                     S, this, Len(S.childComponentList[this]), r1,
                     Point(0, 0), unclipped, Null)
        ELSE {}

\* ------------------------------------------------------------- painting
\* Graphics (not in src): the clip region of a context is the set of its
\* points, in the coordinates of the context's origin
getClipBounds(g) ==
    IF g = {} THEN Rect(0, 0, 0, 0)
    ELSE LET x0 == CHOOSE a \in { p.x : p \in g } : \A p \in g : a <= p.x
             x1 == CHOOSE a \in { p.x : p \in g } : \A p \in g : a >= p.x
             y0 == CHOOSE a \in { p.y : p \in g } : \A p \in g : a <= p.y
             y1 == CHOOSE a \in { p.y : p \in g } : \A p \in g : a >= p.y
         IN  Rect(x0, y0, x1 - x0 + 1, y1 - y0 + 1)

\* Rectangle::intersects
intersects(r, other) == ~ isEmpty(getIntersection(r, other))

\* Graphics::reduceClipRegion, excludeClipRegion, setOrigin
reduceClipRegion(g, r) == g \cap RectPoints(r)
excludeClipRegion(g, r) == g \ RectPoints(r)
setOrigin(g, x, y) == { Translated(p, - x, - y) : p \in g }

\* ComponentHelpers::clipObscuredRegions; i is the loop counter
RECURSIVE clipObscuredRegions(_, _, _, _, _, _)
clipObscuredRegions(S, comp, i, g, clipRect, delta) ==
    IF i - 1 < 0 THEN g
    ELSE
    LET child == GetUnchecked(S.childComponentList[comp], i - 1)
        newClip == getIntersection(clipRect, S.bounds[child])
        g1 == IF S.flags[child].visibleFlag /\ ~ isEmpty(newClip)
              THEN IF S.flags[child].opaqueFlag
                   THEN excludeClipRegion(g, Translated(newClip, delta.x, delta.y))
                   ELSE clipObscuredRegions(
                            S, child, Len(S.childComponentList[child]), g,
                            Translated(newClip, - S.bounds[child].x, - S.bounds[child].y),
                            Translated(delta, S.bounds[child].x, S.bounds[child].y))
              ELSE g
    IN  clipObscuredRegions(S, comp, i - 1, g1, clipRect, delta)

\* Component::paintComponent (bufferToImageFlag clear)
paintComponent(S, this) == Callback(S, "paint", this)

\* the loop over the later siblings that takes the opaque ones out of the clip
RECURSIVE ExcludeOpaqueSiblings(_, _, _, _)
ExcludeOpaqueSiblings(S, this, j, g) ==
    IF j >= Len(S.childComponentList[this]) THEN g
    ELSE LET sibling == GetUnchecked(S.childComponentList[this], j)
         IN  ExcludeOpaqueSiblings(
                 S, this, j + 1,
                 IF S.flags[sibling].opaqueFlag /\ S.flags[sibling].visibleFlag
                 THEN excludeClipRegion(g, S.bounds[sibling])
                 ELSE g)

\* nothingClipped: no later sibling is opaque and visible
NothingClipped(S, this, i) ==
    \A j \in i + 1 .. Len(S.childComponentList[this]) - 1 :
        LET sibling == GetUnchecked(S.childComponentList[this], j)
        IN  ~ (S.flags[sibling].opaqueFlag /\ S.flags[sibling].visibleFlag)

RECURSIVE paintComponentAndChildren(_, _, _)
RECURSIVE PaintChildrenLoop(_, _, _, _, _)

\* Component::paintEntireComponent (no effect, no transparency)
paintEntireComponent(S, this, g) == paintComponentAndChildren(S, this, g)

\* Component::paintWithinParentContext
paintWithinParentContext(S, this, g) ==
    paintEntireComponent(S, this, setOrigin(g, S.bounds[this].x, S.bounds[this].y))

\* a plausible slip: the children are painted from the front of the z-order
\* to the back
NextChildToPaint_FromFront(S, this, i) ==
    GetUnchecked(S.childComponentList[this], Len(S.childComponentList[this]) - 1 - i)

\* Component& child = *childComponentList.getUnchecked (i);
NextChildToPaint(S, this, i) == GetUnchecked(S.childComponentList[this], i)

\* the loop of paintComponentAndChildren over the children, from the first
\* (affineTransform == nullptr, dontClipGraphicsFlag clear)
PaintChildrenLoop(S, this, i, g, clipBounds) ==
    IF i >= Len(S.childComponentList[this]) THEN S
    ELSE
    LET child == NextChildToPaint(S, this, i)
        reduced == reduceClipRegion(g, S.bounds[child])
        clipped == ExcludeOpaqueSiblings(S, this, i + 1, reduced)
    IN
    Then(IF S.flags[child].visibleFlag
               /\ intersects(clipBounds, S.bounds[child])
               /\ reduced # {}
               /\ (NothingClipped(S, this, i) \/ clipped # {})
         THEN paintWithinParentContext(S, child, clipped)
         ELSE S, LAMBDA S1 :
    PaintChildrenLoop(S1, this, i + 1, g, clipBounds))

paintComponentAndChildren(S, this, g) ==
    Then(IF clipObscuredRegions(S, this, Len(S.childComponentList[this]), g,
                                getClipBounds(g), Point(0, 0)) # {}
         THEN paintComponent(S, this)
         ELSE S, LAMBDA S1 :
    Then(PaintChildrenLoop(S1, this, 0, g, getClipBounds(g)), LAMBDA S2 :
    Callback(S2, "paintOverChildren", this)))

\* ------------------------------------------------------------ repainting
\* internalRepaint passing the rectangle on without clipping it to the
\* component
RECURSIVE internalRepaint_Unclipped(_, _, _, _, _, _)
internalRepaint_Unclipped(S, this, x, y, w, h) ==
    LET S0 == CheckMessageManagerIsLocked(S)
    IN
    IF w > 0 /\ h > 0
    THEN IF S0.parentComponent[this] # Null
         THEN IF S0.flags[S0.parentComponent[this]].visibleFlag
              THEN internalRepaint_Unclipped(S0, S0.parentComponent[this],
                                   WrapInt(x + S0.bounds[this].x),
                                   WrapInt(y + S0.bounds[this].y), w, h)
              ELSE S0
         ELSE IF S0.flags[this].hasHeavyweightPeerFlag /\ getPeer(S0, this) # Null
              THEN Log(S0, "peer->repaint",
                       << getPeer(S0, this), Rect(x, y, w, h) >>)
              ELSE S0
    ELSE S0

\* Component::internalRepaint; the request made to the peer is entered in
\* the record with the component that owns the peer
RECURSIVE internalRepaint(_, _, _, _, _, _)
internalRepaint(S, this, x0, y0, w0, h0) ==
    LET S0 == CheckMessageManagerIsLocked(S)
        x == IF x0 < 0 THEN 0 ELSE x0
        w1 == IF x0 < 0 THEN WrapInt(w0 + x0) ELSE w0
        w == IF WrapInt(x + w1) > S0.bounds[this].w
             THEN WrapInt(S0.bounds[this].w - x) ELSE w1
        y == IF y0 < 0 THEN 0 ELSE y0
        h1 == IF y0 < 0 THEN WrapInt(h0 + y0) ELSE h0
        h == IF WrapInt(y + h1) > S0.bounds[this].h
             THEN WrapInt(S0.bounds[this].h - y) ELSE h1
    IN
    IF w > 0 /\ h > 0
    THEN IF S0.parentComponent[this] # Null
         THEN IF S0.flags[S0.parentComponent[this]].visibleFlag
              THEN internalRepaint(S0, S0.parentComponent[this],
                                   WrapInt(x + S0.bounds[this].x),
                                   WrapInt(y + S0.bounds[this].y), w, h)
              ELSE S0
         ELSE IF S0.flags[this].hasHeavyweightPeerFlag /\ getPeer(S0, this) # Null
              THEN Log(S0, "peer->repaint",
                       << getPeer(S0, this), Rect(x, y, w, h) >>)
              ELSE S0
    ELSE S0

\* Component::repaint (x, y, w, h)
repaint(S, this, x, y, w, h) ==
    IF S.flags[this].visibleFlag THEN internalRepaint(S, this, x, y, w, h) ELSE S

\* ------------------------------------------------------------- hit tests
isPositiveAndBelow(v, limit) == 0 <= v /\ v < limit

RECURSIVE hitTest(_, _, _, _)

\* ComponentHelpers::hitTest
ComponentHelpers_hitTest(S, comp, localPoint) ==
    /\ isPositiveAndBelow(localPoint.x, S.bounds[comp].w)
    /\ isPositiveAndBelow(localPoint.y, S.bounds[comp].h)
    /\ hitTest(S, comp, localPoint.x, localPoint.y)

\* Component::hitTest
hitTest(S, this, x, y) ==
    IF ~ S.flags[this].ignoresMouseClicksFlag THEN TRUE
    ELSE IF S.flags[this].allowChildMouseClicksFlag
    THEN \E i \in 1 .. Len(S.childComponentList[this]) :
            LET child == S.childComponentList[this][i]
            IN  /\ S.flags[child].visibleFlag
                /\ ComponentHelpers_hitTest(
                       S, child, convertFromParentSpace(S, child, Point(x, y)))
    ELSE FALSE

RECURSIVE getComponentAt(_, _, _)

\* a plausible slip: the children are tried from the back of the z-order
ChildAtPoint_FromBack(S, this, i, position) ==
    LET hits == { j \in 1 .. i :
                    getComponentAt(
                        S, S.childComponentList[this][j],
                        convertFromParentSpace(S, S.childComponentList[this][j],
                                               position)) # Null }
    IN  IF hits = {} THEN this
        ELSE LET j == CHOOSE k \in hits : \A m \in hits : k <= m
             IN  getComponentAt(
                     S, S.childComponentList[this][j],
                     convertFromParentSpace(S, S.childComponentList[this][j], position))

\* the loop of getComponentAt over the children, from the last
RECURSIVE ChildAtPoint(_, _, _, _)
ChildAtPoint(S, this, i, position) ==
    IF i - 1 < 0 THEN this
    ELSE LET c == GetUnchecked(S.childComponentList[this], i - 1)
             child == getComponentAt(S, c, convertFromParentSpace(S, c, position))
         IN  IF child # Null THEN child
             ELSE ChildAtPoint(S, this, i - 1, position)

getComponentAt(S, this, position) ==
    IF S.flags[this].visibleFlag /\ ComponentHelpers_hitTest(S, this, position)
    THEN ChildAtPoint(S, this, Len(S.childComponentList[this]), position)
    ELSE Null

\* ------------------------------------------------------------- bounds
RECURSIVE ParentSizeChangedLoop(_, _, _)
ParentSizeChangedLoop(S, this, i) ==
    IF i - 1 < 0 THEN S
    ELSE Then(Callback(S, "parentSizeChanged",
                       GetUnchecked(S.childComponentList[this], i - 1)), LAMBDA S1 :
         IF ShouldBailOut(S1, this) THEN S1
         ELSE ParentSizeChangedLoop(
                  S1, this, Min(i - 1, Len(S1.childComponentList[this]))))

\* sendMovedResizedMessages going on to resized() without asking the
\* BailOutChecker after moved()
sendMovedResizedMessages_MovedUnchecked(S, this, wasMoved, wasResized) ==
    Then(IF wasMoved THEN Callback(S, "moved", this) ELSE S, LAMBDA S1 :
    Then(IF wasResized THEN Callback(S1, "resized", this) ELSE S1, LAMBDA S2 :
    IF wasResized /\ ShouldBailOut(S2, this) THEN S2
    ELSE
    Then(IF wasResized
         THEN ParentSizeChangedLoop(S2, this, Len(S2.childComponentList[this]))
         ELSE S2, LAMBDA S3 :
    IF wasResized /\ ShouldBailOut(S3, this) THEN S3
    ELSE
    Then(Touch(S3, this), LAMBDA S3t :
    Then(IF S3t.parentComponent[this] # Null
         THEN Callback(S3t, "childBoundsChanged", S3t.parentComponent[this])
         ELSE S3t, LAMBDA S4 :
    IF ShouldBailOut(S4, this) THEN S4
    ELSE ListenerCall(S4, "componentMovedOrResized", this))))))

sendMovedResizedMessages(S, this, wasMoved, wasResized) ==
    Then(IF wasMoved THEN Callback(S, "moved", this) ELSE S, LAMBDA S1 :
    IF wasMoved /\ ShouldBailOut(S1, this) THEN S1
    ELSE
    Then(IF wasResized THEN Callback(S1, "resized", this) ELSE S1, LAMBDA S2 :
    IF wasResized /\ ShouldBailOut(S2, this) THEN S2
    ELSE
    Then(IF wasResized
         THEN ParentSizeChangedLoop(S2, this, Len(S2.childComponentList[this]))
         ELSE S2, LAMBDA S3 :
    IF wasResized /\ ShouldBailOut(S3, this) THEN S3
    ELSE
    Then(Touch(S3, this), LAMBDA S3t :
    Then(IF S3t.parentComponent[this] # Null
         THEN Callback(S3t, "childBoundsChanged", S3t.parentComponent[this])
         ELSE S3t, LAMBDA S4 :
    IF ShouldBailOut(S4, this) THEN S4
    ELSE ListenerCall(S4, "componentMovedOrResized", this))))))

\* setBounds storing the width and the height as they are given
setBounds_Unclamped(S, this, x, y, w0, h0) ==
    LET S0 == CheckMessageManagerIsLocked(S)
        wasResized == S0.bounds[this].w # w0 \/ S0.bounds[this].h # h0
        wasMoved == S0.bounds[this].x # x \/ S0.bounds[this].y # y
    IN  IF wasMoved \/ wasResized
        THEN sendMovedResizedMessages(
                 [S0 EXCEPT !.bounds[this] = Rect(x, y, w0, h0)],
                 this, wasMoved, wasResized)
        ELSE S0

setBounds(S, this, x, y, w0, h0) ==
    LET S0 == CheckMessageManagerIsLocked(S)
        w == IF w0 < 0 THEN 0 ELSE w0
        h == IF h0 < 0 THEN 0 ELSE h0
        wasResized == S0.bounds[this].w # w \/ S0.bounds[this].h # h
        wasMoved == S0.bounds[this].x # x \/ S0.bounds[this].y # y
    IN  IF wasMoved \/ wasResized
        THEN sendMovedResizedMessages(
                 [S0 EXCEPT !.bounds[this] = Rect(x, y, w, h)],
                 this, wasMoved, wasResized)
        ELSE S0

setSize(S, this, w, h) ==
    setBounds(S, this, S.bounds[this].x, S.bounds[this].y, w, h)

setTopLeftPosition(S, this, x, y) ==
    setBounds(S, this, x, y, S.bounds[this].w, S.bounds[this].h)

\* ------------------------------------------------ adding and z-order
\* the insertion index addChildComponent computes
InsertIndex(S, this, child, zOrder0) ==
    LET list == S.childComponentList[this]
        RECURSIVE Below(_)
        Below(z) == IF z > 0 /\ S.flags[GetUnchecked(list, z - 1)].alwaysOnTopFlag
                    THEN Below(z - 1)
                    ELSE z
    IN  IF ~ S.flags[child].alwaysOnTopFlag
        THEN Below(IF zOrder0 < 0 \/ zOrder0 > Len(list) THEN Len(list) ELSE zOrder0)
        ELSE zOrder0

\* a plausible slip: a child that is on the desktop keeps its peer
DetachChild_KeepsPeer(S, child) ==
    LET oldParent == S.parentComponent[child]
    IN  IF oldParent # Null
        THEN removeChildComponent(
                 S, oldParent, IndexOf(S.childComponentList[oldParent], child),
                 TRUE, TRUE)
        ELSE S

\* addChildComponent takes the child out of its old parent, or else off the
\* desktop
DetachChild(S, child) ==
    LET oldParent == S.parentComponent[child]
    IN  IF oldParent # Null
        THEN removeChildComponent(
                 S, oldParent, IndexOf(S.childComponentList[oldParent], child),
                 TRUE, TRUE)
        ELSE removeFromDesktop(S, child)

\* a plausible slip: the child is put in the list but its parent pointer is
\* left as it was
SetParent_Forgotten(S, this, child) == S

\* child->parentComponent = this
SetParent(S, this, child) ==
    HierarchyWrite([Touch(Touch(S, child), this) EXCEPT !.parentComponent[child] = this])

addChildComponent(S, this, child, zOrder) ==
    LET S0 == CheckMessageManagerIsLocked(S)
    IN
    IF child = Null \/ S0.parentComponent[child] = this THEN S0
    ELSE
    Then(DetachChild(S0, child), LAMBDA S1 :
    Then(SetParent(S1, this, child), LAMBDA S2 :
    Then(repaintParent(S2, child), LAMBDA S3 :
    Then(HierarchyWrite(
             [S3 EXCEPT !.childComponentList[this] =
                  ArrayInsert(@, InsertIndex(S3, this, child, zOrder), child)]),
         LAMBDA S4 :
    IF WouldCycle(S1, this, child)
    THEN \* internalHierarchyChanged recurses through the cycle for ever
         [S4 EXCEPT !.crashed = TRUE]
    ELSE internalChildrenChanged(
             Touch(internalHierarchyChanged(S4, child), this), this)))))

moveChildInternal(S, this, sourceIndex, destIndex) ==
    IF sourceIndex # destIndex
    THEN LET c == GetUnchecked(S.childComponentList[this], sourceIndex)
             S1 == repaintParent(S, c)
             S2 == HierarchyWrite(
                      [S1 EXCEPT !.childComponentList[this] =
                           ArrayMove(@, sourceIndex, destIndex)])
         IN  internalChildrenChanged(S2, this)
    ELSE S

internalBroughtToFront(S, this) ==
    Then(Callback(Touch(S, this), "broughtToFront", this), LAMBDA S1 :
    IF ShouldBailOut(S1, this) THEN S1
    ELSE ListenerCall(S1, "componentBroughtToFront", this))

\* the while loop left out: the always-on-top siblings are not skipped
FrontIndex_NotSkipped(S, list, insertIndex) == insertIndex

\* the while loop of toFront that skips the always-on-top siblings
RECURSIVE FrontIndex(_, _, _)
FrontIndex(S, list, insertIndex) ==
    IF insertIndex > 0 /\ S.flags[GetUnchecked(list, insertIndex)].alwaysOnTopFlag
    THEN FrontIndex(S, list, insertIndex - 1)
    ELSE insertIndex

toFront(S, this, setAsForeground) ==
    LET S0 == CheckMessageManagerIsLocked(S)
        parent == S0.parentComponent[this]
    IN
    IF S0.flags[this].hasHeavyweightPeerFlag
    THEN IF setAsForeground /\ ~ hasKeyboardFocus(S0, this, TRUE)
         THEN grabKeyboardFocus(S0, this)
         ELSE S0
    ELSE IF parent # Null
    THEN LET childList == S0.childComponentList[parent]
             index == IndexOf(childList, this)
         IN
         Then(IF At(childList, Len(childList) - 1) # this /\ index >= 0
              THEN moveChildInternal(
                       S0, parent, index,
                       IF ~ S0.flags[this].alwaysOnTopFlag
                       THEN FrontIndex(S0, childList, Len(childList) - 1)
                       ELSE -1)
              ELSE S0, LAMBDA S1 :
         IF setAsForeground
         THEN grabKeyboardFocus(
                  Touch(internalBroughtToFront(S1, this), this), this)
         ELSE S1)
    ELSE S0

toBehind(S, this, other) ==
    IF other # Null /\ other # this
    THEN LET parent == S.parentComponent[this]
         IN  IF parent # Null
             THEN LET childList == S.childComponentList[parent]
                      index == IndexOf(childList, this)
                      otherIndex == IndexOf(childList, other)
                  IN  IF index >= 0 /\ At(childList, index + 1) # other
                            /\ otherIndex >= 0
                      THEN moveChildInternal(
                               S, parent, index,
                               IF index < otherIndex THEN otherIndex - 1
                               ELSE otherIndex)
                      ELSE S
             ELSE S
    ELSE S

\* the while loop of toBack that skips the siblings that are not always on top
RECURSIVE BackIndex(_, _, _)
BackIndex(S, list, insertIndex) ==
    IF insertIndex < Len(list)
          /\ ~ S.flags[GetUnchecked(list, insertIndex)].alwaysOnTopFlag
    THEN BackIndex(S, list, insertIndex + 1)
    ELSE insertIndex

toBack(S, this) ==
    LET parent == S.parentComponent[this]
    IN  IF S.flags[this].hasHeavyweightPeerFlag THEN S
        ELSE IF parent # Null
        THEN LET childList == S.childComponentList[parent]
                 index == IndexOf(childList, this)
             IN  IF At(childList, 0) # this /\ index > 0
                 THEN moveChildInternal(
                          S, parent, index,
                          IF S.flags[this].alwaysOnTopFlag
                          THEN BackIndex(S, childList, 0)
                          ELSE 0)
                 ELSE S
        ELSE S

\* --------------------------------------------- visibility and the desktop
\* ModalItem::componentVisibilityChanged (not in src): a modal item whose
\* component is no longer showing is cancelled
CancelHiddenModalItems(S, c) ==
    [S EXCEPT !.modalStack =
        [i \in 1 .. Len(@) |->
            IF (@[i].component = c \/ isParentOf(S, c, @[i].component))
                  /\ IsAlive(S, @[i].component)
                  /\ ~ isShowing(S, @[i].component)
            THEN [@[i] EXCEPT !.isActive = FALSE]
            ELSE @[i]]]

sendVisibilityChangeMessage(S, this) ==
    Then(Callback(S, "visibilityChanged", this), LAMBDA S1 :
    IF ShouldBailOut(S1, this) THEN S1
    ELSE CancelHiddenModalItems(
             ListenerCall(S1, "componentVisibilityChanged", this), this))

setVisible(S, this, shouldBeVisible) ==
    IF S.flags[this].visibleFlag = shouldBeVisible THEN S
    ELSE
    Then(SetFlag(CheckMessageManagerIsLocked(S), this, "visibleFlag",
                 shouldBeVisible), LAMBDA S1 :
    Then(IF ~ shouldBeVisible
               /\ (S1.currentlyFocusedComponent = this
                      \/ isParentOf(S1, this, S1.currentlyFocusedComponent))
         THEN IF S1.parentComponent[this] # Null
              THEN grabKeyboardFocus(S1, S1.parentComponent[this])
              ELSE giveAwayFocus(S1, TRUE)
         ELSE S1, LAMBDA S2 :
    IF ~ IsAlive(S2, this) THEN S2
    ELSE
    Then(sendVisibilityChangeMessage(S2, this), LAMBDA S3 :
    IF IsAlive(S3, this) /\ S3.flags[this].hasHeavyweightPeerFlag
    THEN internalHierarchyChanged(S3, this)
    ELSE S3)))

\* styleChanged: styleWanted != currentStyleFlags
addToDesktop(S, this, styleChanged) ==
    LET S0 == CheckMessageManagerIsLocked(S)
        hadPeer == S0.flags[this].hasHeavyweightPeerFlag
    IN
    IF ~ (styleChanged \/ ~ hadPeer) THEN S0
    ELSE
    LET topLeft == getScreenPosition(S0, this)
    IN
    Then(IF hadPeer
         THEN setTopLeftPosition(removeFromDesktop(S0, this), this,
                                 topLeft.x, topLeft.y)
         ELSE S0, LAMBDA S1 :
    Then(Touch(S1, this), LAMBDA S1t :
    Then(IF S1t.parentComponent[this] # Null
         THEN removeChildComponent(
                  S1t, S1t.parentComponent[this],
                  IndexOf(S1t.childComponentList[S1t.parentComponent[this]], this),
                  TRUE, TRUE)
         ELSE S1t, LAMBDA S2 :
    Then(IF IsAlive(S2, this)
         THEN [SetFlag(S2, this, "hasHeavyweightPeerFlag", TRUE)
                  EXCEPT !.bounds[this].x = topLeft.x,
                         !.bounds[this].y = topLeft.y]
         ELSE S2, LAMBDA S3 :
    internalHierarchyChanged(Touch(S3, this), this)))))

setAlwaysOnTop(S, this, shouldStayOnTop) ==
    IF shouldStayOnTop = S.flags[this].alwaysOnTopFlag THEN S
    ELSE
    Then(SetFlag(S, this, "alwaysOnTopFlag", shouldStayOnTop), LAMBDA S1 :
    Then(IF shouldStayOnTop /\ ~ ShouldBailOut(S1, this)
         THEN toFront(S1, this, FALSE)
         ELSE S1, LAMBDA S2 :
    IF ~ ShouldBailOut(S2, this)
    THEN internalHierarchyChanged(S2, this)
    ELSE S2))

\* ------------------------------------------------------------- modal state
isCurrentlyModal(S, this) ==
    S.flags[this].currentlyModalFlag /\ getCurrentlyModalComponent(S) = this

isCurrentlyBlockedByAnotherModalComponent(S, this) ==
    LET mc == getCurrentlyModalComponent(S)
    IN  ~ (mc = Null \/ mc = this \/ isParentOf(S, mc, this))

enterModalState(S, this, shouldTakeKeyboardFocus) ==
    LET S0 == CheckMessageManagerIsLocked(S)
    IN  IF isCurrentlyModal(S0, this) THEN S0
        ELSE Then(setVisible(
                      SetFlag(startModal(S0, this), this,
                              "currentlyModalFlag", TRUE),
                      this, TRUE), LAMBDA S1 :
             IF shouldTakeKeyboardFocus
             THEN grabKeyboardFocus(Touch(S1, this), this)
             ELSE S1)

\* CallbackMessage::post
post(S, message) == [S EXCEPT !.messageQueue = Append(@, message)]

\* (S.isThisTheMessageThread: MessageManager::isThisTheMessageThread();
\* bringModalComponentsToFront acts on the windows of the modal components)
exitModalState(S, this) ==
    IF S.flags[this].currentlyModalFlag
    THEN IF S.isThisTheMessageThread
         THEN SetFlag(endModal(S, this), this, "currentlyModalFlag", FALSE)
         ELSE post(S, [message |-> "ExitModalStateMessage", target |-> this,
                       value |-> 0])
    ELSE S

\* ExitModalStateMessage::messageCallback, on the message thread; target is
\* a WeakReference, which the destructor of the component clears
ExitModalStateMessage_messageCallback_Unguarded(S, m) ==
    exitModalState(Touch(S, m.target), m.target)

ExitModalStateMessage_messageCallback(S, m) ==
    IF IsAlive(S, m.target) THEN exitModalState(S, m.target) ELSE S

postCommandMessage(S, this, commandId) ==
    post(S, [message |-> "CustomCommandMessage", target |-> this,
             value |-> commandId])

\* CustomCommandMessage::messageCallback; the record of handleCommandMessage
\* is preceded by the commandId it is given
CustomCommandMessage_messageCallback(S, m) ==
    IF IsAlive(S, m.target)
    THEN Callback(Log(S, "commandId", m.value), "handleCommandMessage", m.target)
    ELSE S

\* Component::inputAttemptWhenModal: the base class asks the modal manager
\* to bring the windows of the modal components to the front and plays the
\* alert sound, neither of which changes a component; S.dismisses says that
\* the modal component overrides it to leave its modal state
inputAttemptWhenModal(S, this) ==
    Then(Callback(S, "inputAttemptWhenModal", this), LAMBDA S1 :
    IF S.dismisses /\ IsAlive(S1, this) THEN exitModalState(S1, this) ELSE S1)

internalModalInputAttempt(S, this) ==
    LET current == getCurrentlyModalComponent(S)
    IN  IF current # Null
        THEN inputAttemptWhenModal(S, current)
        ELSE S

\* ------------------------------------------------------- focus traversal
\* KeyboardFocusTraverser::getNextComponent / getPreviousComponent (not in
\* src, and replaceable through createFocusTraverser): the traverser answers
\* S.nextComp when asked for the neighbour of S.traversed and nullptr when
\* asked for the neighbour of any other component
getNextComponent(S, current) ==
    IF current = S.traversed /\ IsAlive(S, S.nextComp) THEN S.nextComp ELSE Null

\* moveKeyboardFocusToSibling handing the focus to the neighbour without
\* testing again, after the input attempt, whether it is blocked
RECURSIVE moveKeyboardFocusToSibling_NotRetested(_, _)
moveKeyboardFocusToSibling_NotRetested(S, this) ==
    LET S0 == CheckMessageManagerIsLocked(S)
        nextComp == getNextComponent(S0, this)
    IN
    IF S0.parentComponent[this] = Null THEN S0
    ELSE IF nextComp # Null
    THEN Then(Log(S0, "getNextComponent", nextComp), LAMBDA S1 :
         IF isCurrentlyBlockedByAnotherModalComponent(S1, nextComp)
         THEN Then(internalModalInputAttempt(S1, this), LAMBDA S2 :
              IF ~ IsAlive(S2, nextComp)
              THEN S2
              ELSE grabFocusInternal(S2, nextComp, "focusChangedByTabKey", TRUE))
         ELSE grabFocusInternal(S1, nextComp, "focusChangedByTabKey", TRUE))
    ELSE moveKeyboardFocusToSibling_NotRetested(S0, S0.parentComponent[this])

\* (the record has the traverser's answer first)
RECURSIVE moveKeyboardFocusToSibling(_, _)
moveKeyboardFocusToSibling(S, this) ==
    LET S0 == CheckMessageManagerIsLocked(S)
        nextComp == getNextComponent(S0, this)
    IN
    IF S0.parentComponent[this] = Null THEN S0
    ELSE IF nextComp # Null
    THEN Then(Log(S0, "getNextComponent", nextComp), LAMBDA S1 :
         IF isCurrentlyBlockedByAnotherModalComponent(S1, nextComp)
         THEN Then(internalModalInputAttempt(S1, this), LAMBDA S2 :
              IF ~ IsAlive(S2, nextComp)
                    \/ isCurrentlyBlockedByAnotherModalComponent(S2, nextComp)
              THEN S2
              ELSE grabFocusInternal(S2, nextComp, "focusChangedByTabKey", TRUE))
         ELSE grabFocusInternal(S1, nextComp, "focusChangedByTabKey", TRUE))
    ELSE moveKeyboardFocusToSibling(S0, S0.parentComponent[this])

\* ----------------------------------------------------------- mouse listeners
\* MouseListenerList::addListener
addListener(list, newListener, wantsEventsForAllNestedChildComponents) ==
    IF IndexOf(list.listeners, newListener) >= 0 THEN list
    ELSE IF wantsEventsForAllNestedChildComponents
    THEN [ listeners |-> ArrayInsert(list.listeners, 0, newListener),
           numDeepMouseListeners |-> list.numDeepMouseListeners + 1 ]
    ELSE [list EXCEPT !.listeners = Append(@, newListener)]

\* MouseListenerList::removeListener
removeListener(list, listenerToRemove) ==
    LET index == IndexOf(list.listeners, listenerToRemove)
    IN  IF index >= 0
        THEN [ listeners |-> ArrayRemove(list.listeners, index),
               numDeepMouseListeners |->
                   IF index < list.numDeepMouseListeners
                   THEN list.numDeepMouseListeners - 1
                   ELSE list.numDeepMouseListeners ]
        ELSE list

\* Component::addMouseListener, removeMouseListener
addMouseListener(S, this, newListener, wantsEventsForAllNestedChildComponents) ==
    [CheckMessageManagerIsLocked(S) EXCEPT
        !.mouseListeners[this] =
            addListener(@, newListener, wantsEventsForAllNestedChildComponents)]

removeMouseListener(S, this, listenerToRemove) ==
    [CheckMessageManagerIsLocked(S) EXCEPT
        !.mouseListeners[this] = removeListener(@, listenerToRemove)]

\* what the callback of the listener S.reactor does to the list it is called
\* from: nothing, addListener or removeListener
React(list, reaction) ==
    CASE reaction[1] = "add" -> addListener(list, reaction[2], reaction[3])
      [] reaction[1] = "remove" -> removeListener(list, reaction[2])
      [] OTHER -> list

\* (list->listeners.getUnchecked(i)->*eventMethod) (e) on the list of p; an
\* index outside the array reads memory that is not a listener
CallListener(S, p, i) ==
    LET list == S.mouseListeners[p]
    IN  IF i < 0 \/ i >= Len(list.listeners)
        THEN [S EXCEPT !.uaf = TRUE]
        ELSE LET l == GetUnchecked(list.listeners, i)
                 S1 == Log(S, "mouseListener", << p, l >>)
             IN  IF S.reactor = l
                 THEN [S1 EXCEPT !.mouseListeners[p] = React(@, S.reaction)]
                 ELSE S1

\* i = jmin (i, list->listeners.size());
NextListenerIndex(i, size) == Min(i, size)

\* the loop of sendMouseEvent over the component's own listeners; i is the
\* loop variable before the --i of the loop header
RECURSIVE ListenerLoop(_, _, _)
ListenerLoop(S, comp, i) ==
    IF i - 1 < 0 THEN S
    ELSE Then(CallListener(S, comp, i - 1), LAMBDA S1 :
         IF ShouldBailOut(S1, comp) \/ S1.uaf THEN S1
         ELSE ListenerLoop(S1, comp,
                           NextListenerIndex(i - 1,
                                             Len(S1.mouseListeners[comp].listeners))))

\* the loop over the deep listeners of the parent p
RECURSIVE DeepListenerLoop(_, _, _, _)
DeepListenerLoop(S, comp, p, i) ==
    IF i - 1 < 0 THEN S
    ELSE Then(CallListener(S, p, i - 1), LAMBDA S1 :
         IF ShouldBailOut(S1, comp) \/ ~ IsAlive(S1, p) \/ S1.uaf THEN S1
         ELSE DeepListenerLoop(S1, comp, p,
                               NextListenerIndex(i - 1,
                                                 S1.mouseListeners[p].numDeepMouseListeners)))

\* the loop over the parents
RECURSIVE ParentListenersLoop(_, _, _)
ParentListenersLoop(S, comp, p) ==
    IF p = Null THEN S
    ELSE Then(IF S.mouseListeners[p].numDeepMouseListeners > 0
              THEN DeepListenerLoop(S, comp, p,
                                    S.mouseListeners[p].numDeepMouseListeners)
              ELSE S, LAMBDA S1 :
         IF ShouldBailOut(S1, comp) \/ ~ IsAlive(S1, p) \/ S1.uaf THEN S1
         ELSE ParentListenersLoop(S1, comp, S1.parentComponent[p]))

\* MouseListenerList::sendMouseEvent, listener by listener (sendMouseEvent
\* below takes the listeners of a component as one)
MouseListenerList_sendMouseEvent(S, comp) ==
    IF ShouldBailOut(S, comp) THEN S
    ELSE Then(ListenerLoop(S, comp, Len(S.mouseListeners[comp].listeners)),
              LAMBDA S1 :
         IF ShouldBailOut(S1, comp) \/ S1.uaf THEN S1
         ELSE ParentListenersLoop(S1, comp, S1.parentComponent[comp]))

\* ------------------------------------------------------------ mouse events
\* MouseListenerList::sendMouseEvent: the component's own listeners, then the
\* deep listeners of each parent (each parent guarded by a BailOutChecker2)
RECURSIVE SendToParents(_, _, _, _)
SendToParents(S, comp, p, event) ==
    IF p = Null THEN S
    ELSE Then(ListenerCall(Touch(S, p), event, p), LAMBDA S1 :
         IF ShouldBailOut(S1, comp) \/ ~ IsAlive(S1, p) THEN S1
         ELSE SendToParents(S1, comp, S1.parentComponent[p], event))

sendMouseEvent(S, comp, event) ==
    IF ShouldBailOut(S, comp) THEN S
    ELSE Then(ListenerCall(S, event, comp), LAMBDA S1 :
         IF ShouldBailOut(S1, comp) THEN S1
         ELSE SendToParents(S1, comp, S1.parentComponent[comp], event))

\* Desktop::mouseListeners.callChecked (Null stands for the Desktop)
DesktopListeners(S, this, event) ==
    IF ShouldBailOut(S, this) THEN S ELSE ListenerCall(S, event, Null)

\* the tail shared by the internalMouse... handlers: the component's own
\* callback, then the Desktop's listeners, then the mouse listeners
Deliver(S, this, event) ==
    Then(Callback(S, event, this), LAMBDA S1 :
    IF ShouldBailOut(S1, this) THEN S1
    ELSE sendMouseEvent(
             DesktopListeners(S1, this, event \o "@desktop"),
             this, event \o "@listener"))

internalMouseEnter(S, this) ==
    IF isCurrentlyBlockedByAnotherModalComponent(S, this) THEN S
    ELSE IF ~ S.flags[this].mouseInsideFlag
    THEN Deliver(
             [S EXCEPT !.flags[this].mouseInsideFlag = TRUE,
                       !.flags[this].mouseOverFlag = TRUE,
                       !.flags[this].mouseDownFlag = FALSE],
             this, "mouseEnter")
    ELSE S

\* (S.doubleClick: me.getNumberOfClicks() >= 2)
internalMouseUp(S, this) ==
    IF S.flags[this].mouseDownFlag
    THEN Then(Deliver(SetFlag(S, this, "mouseDownFlag", FALSE), this, "mouseUp"),
              LAMBDA S1 :
         IF ShouldBailOut(S1, this) \/ ~ S.doubleClick THEN S1
         ELSE Deliver(S1, this, "mouseDoubleClick"))
    ELSE S

\* internalMouseExit without its call of internalMouseUp
internalMouseExit_UpSkipped(S, this) ==
    Then(Touch(S, this), LAMBDA S1t :
    IF S1t.flags[this].mouseInsideFlag \/ S1t.flags[this].mouseOverFlag
    THEN Deliver(
             [S1t EXCEPT !.flags[this].mouseInsideFlag = FALSE,
                         !.flags[this].mouseOverFlag = FALSE,
                         !.flags[this].mouseDownFlag = FALSE],
             this, "mouseExit")
    ELSE S1t)

internalMouseExit(S, this) ==
    Then(IF S.flags[this].mouseDownFlag THEN internalMouseUp(S, this) ELSE S,
         LAMBDA S1 :
    IF S.flags[this].mouseDownFlag /\ ShouldBailOut(S1, this) THEN S1
    ELSE
    Then(Touch(S1, this), LAMBDA S1t :
    IF S1t.flags[this].mouseInsideFlag \/ S1t.flags[this].mouseOverFlag
    THEN Deliver(
             [S1t EXCEPT !.flags[this].mouseInsideFlag = FALSE,
                         !.flags[this].mouseOverFlag = FALSE,
                         !.flags[this].mouseDownFlag = FALSE],
             this, "mouseExit")
    ELSE S1t))

\* the loop of internalMouseDown that brings the component and its parents
\* to the front
RECURSIVE BringToFrontLoop(_, _, _)
BringToFrontLoop(S, this, c) ==
    IF c = Null THEN S
    ELSE LET St == Touch(S, c)
         IN
         Then(IF St.flags[c].bringToFrontOnClickFlag
              THEN toFront(St, c, TRUE)
              ELSE St, LAMBDA S1 :
         IF St.flags[c].bringToFrontOnClickFlag /\ ShouldBailOut(S1, this)
         THEN S1
         ELSE
         Then(Touch(S1, c), LAMBDA S1t :
         BringToFrontLoop(S1t, this, S1t.parentComponent[c])))

\* internalMouseDown delivering the event after the input attempt whether
\* or not the component is still blocked
internalMouseDown_BlockIgnored(S, this) ==
    LET blocked == isCurrentlyBlockedByAnotherModalComponent(S, this)
    IN
    Then(IF blocked THEN internalModalInputAttempt(S, this) ELSE S, LAMBDA S1 :
    IF blocked /\ ShouldBailOut(S1, this) THEN S1
    ELSE
    Then(BringToFrontLoop(S1, this, this), LAMBDA S2 :
    IF ShouldBailOut(S2, this) THEN S2
    ELSE
    Then(IF ~ S2.flags[this].dontFocusOnMouseClickFlag
         THEN grabFocusInternal(S2, this, "focusChangedByMouseClick", TRUE)
         ELSE S2, LAMBDA S3 :
    IF ShouldBailOut(S3, this) THEN S3
    ELSE Deliver(
             [S3 EXCEPT !.flags[this].mouseDownFlag = TRUE,
                        !.flags[this].mouseOverFlag = TRUE],
             this, "mouseDown"))))

internalMouseDown(S, this) ==
    LET blocked == isCurrentlyBlockedByAnotherModalComponent(S, this)
    IN
    Then(IF blocked THEN internalModalInputAttempt(S, this) ELSE S, LAMBDA S1 :
    IF blocked /\ ShouldBailOut(S1, this) THEN S1
    ELSE IF blocked /\ isCurrentlyBlockedByAnotherModalComponent(S1, this)
    THEN DesktopListeners(S1, this, "mouseDown@desktop")
    ELSE
    Then(BringToFrontLoop(S1, this, this), LAMBDA S2 :
    IF ShouldBailOut(S2, this) THEN S2
    ELSE
    Then(IF ~ S2.flags[this].dontFocusOnMouseClickFlag
         THEN grabFocusInternal(S2, this, "focusChangedByMouseClick", TRUE)
         ELSE S2, LAMBDA S3 :
    IF ShouldBailOut(S3, this) THEN S3
    ELSE Deliver(
             [S3 EXCEPT !.flags[this].mouseDownFlag = TRUE,
                        !.flags[this].mouseOverFlag = TRUE],
             this, "mouseDown"))))

\* Component::reallyContains is a geometric query of the caller's position;
\* over says what it answered
internalMouseDrag(S, this, over) ==
    IF S.flags[this].mouseDownFlag
    THEN Deliver(SetFlag(S, this, "mouseOverFlag", over), this, "mouseDrag")
    ELSE S

internalMouseMove(S, this) ==
    IF isCurrentlyBlockedByAnotherModalComponent(S, this)
    THEN ListenerCall(S, "mouseMove@desktop", Null)
    ELSE Deliver(SetFlag(S, this, "mouseOverFlag", TRUE), this, "mouseMove")

\* Component::mouseWheelMove: the base class passes the event to the parent
RECURSIVE mouseWheelMove(_, _)
mouseWheelMove(S, this) ==
    IF Overridden(S, "mouseWheelMove", this)
    THEN Callback(S, "mouseWheelMove", this)
    ELSE Then(Callback(S, "mouseWheelMove", this), LAMBDA S1 :
         IF S1.parentComponent[this] # Null
         THEN mouseWheelMove(S1, S1.parentComponent[this])
         ELSE S1)

internalMouseWheel(S, this) ==
    IF isCurrentlyBlockedByAnotherModalComponent(S, this)
    THEN ListenerCall(S, "mouseWheelMove@desktop", Null)
    ELSE Then(mouseWheelMove(S, this), LAMBDA S1 :
         IF ShouldBailOut(S1, this) THEN S1
         ELSE sendMouseEvent(
                  DesktopListeners(S1, this, "mouseWheelMove@desktop"),
                  this, "mouseWheelMove@listener"))

\* --------------------------------------------------------- stored settings
\* const int numSwatchColours = 24
numSwatchColours == 24

\* a string of hexadecimal digits is the sequence of its digits' values
\* (String, not in src): hexString8Digits writes eight digits, getHexValue32
\* reads the digits it is given
hexString8Digits(v) == [k \in 1 .. 8 |-> (v \div (16 ^ (8 - k))) % 16]

RECURSIVE getHexValue32(_)
getHexValue32(str) ==
    IF str = << >> THEN 0
    ELSE getHexValue32(SubSeq(str, 1, Len(str) - 1)) * 16 + str[Len(str)]

\* the ARGB value of entry n of the colours table built from jucer_Colours.h
\* (not in src)
colours(n) == 16 ^ 7 + n

\* a set of properties (PropertiesFile, not in src): the pairs of i and the
\* string held under "swatchColour" + i, the recent files and whether key
\* mappings are held
NoProperties ==
    [ swatch |-> {}, recentFiles |-> {}, keyMappings |-> FALSE ]

\* PropertiesFile::getValue of "swatchColour" + i
getValue(props, i, defaultValue) ==
    IF \E e \in props.swatch : e[1] = i
    THEN (CHOOSE e \in props.swatch : e[1] = i)[2]
    ELSE defaultValue

\* before construction: no object, no files.  A pointer is the empty
\* sequence when null and holds its object otherwise; so is a file that
\* may not exist
NoStoredSettings ==
    [ constructed |-> FALSE, props |-> << >>, swatchColours |-> << >>,
      recentFiles |-> {}, file |-> << >>, oldFile |-> << >>, existing |-> {},
      call |-> "none", flushes |-> 0, sizeBefore |-> 0 ]

\* the first part of flush: the properties are written and the file is read
\* again, taking over an older version's file if there is none; keys tells
\* whether the command manager gave key mappings, saved whether the
\* properties reached the file when the PropertiesFile was deleted
reloadProps(T, keys, saved) ==
    LET written == IF T.props # << >>
                   THEN << [T.props[1] EXCEPT !.recentFiles = T.recentFiles,
                                              !.keyMappings = keys] >>
                   ELSE << >>
        file1 == IF written # << >> /\ saved THEN written ELSE T.file
        loaded == IF file1 # << >> THEN file1
                  ELSE IF T.oldFile # << >> THEN T.oldFile
                  ELSE << NoProperties >>
    IN  [T EXCEPT !.props = loaded,
                  !.file = file1,
                  !.recentFiles = loaded[1].recentFiles \cap T.existing]

\* the loop of flush that adds the swatch colours; i is the loop counter
RECURSIVE AddSwatchColours(_, _)
AddSwatchColours(T, i) ==
    IF i < numSwatchColours
    THEN AddSwatchColours(
             [T EXCEPT !.swatchColours =
                  Append(@, getHexValue32(
                                getValue(T.props[1], i,
                                         hexString8Digits(colours(2 + i)))))],
             i + 1)
    ELSE T

\* flush without swatchColours.clear()
flush_NotCleared(T, keys, saved) ==
    AddSwatchColours(reloadProps(T, keys, saved), 0)

\* StoredSettings::flush
flush(T, keys, saved) ==
    AddSwatchColours(
        [reloadProps(T, keys, saved) EXCEPT !.swatchColours = << >>], 0)

\* ------------------------------------------------------------- actions
\* the components whose mouseEnter callback has been invoked and whose
\* mouseExit callback has not been invoked since, after the callbacks
\* log[i], log[i+1], ... have run
RECURSIVE EnteredAfter(_, _, _)
EnteredAfter(entered, log, i) ==
    IF i > Len(log) THEN entered
    ELSE EnteredAfter(
             CASE log[i][1] = "mouseEnter" -> entered \cup { log[i][2] }
               [] log[i][1] = "mouseExit" -> entered \ { log[i][2] }
               [] OTHER -> entered,
             log, i + 1)

\* the state after an operation: the variables take the values of record R.
\* h is the set of << operation name, argument >> pairs the specification
\* keeps in the history variable (with the callbacks invoked); any other
\* operation is recorded as "other".
Commit(R, name, arg, h) ==
    /\ alive' = R.alive
    /\ parentComponent' = R.parentComponent
    /\ childComponentList' = R.childComponentList
    /\ flags' = R.flags
    /\ bounds' = R.bounds
    /\ currentlyFocusedComponent' = R.currentlyFocusedComponent
    /\ modalStack' = R.modalStack
    /\ mouseListeners' = R.mouseListeners
    /\ messageQueue' = R.messageQueue
    /\ UNCHANGED settings
    /\ last' = [ name |-> IF << name, arg >> \in h THEN name ELSE "other",
                 arg |-> IF << name, arg >> \in h THEN arg ELSE FALSE,
                 this |-> IF << name, arg >> \in h THEN R.this ELSE Null,
                 modal |-> IF << name, arg >> \in h
                           THEN getCurrentlyModalComponent(Cur) ELSE Null,
                 log |-> IF << name, arg >> \in h THEN R.log ELSE << >>,
                 focusAt |-> IF << name, arg >> \in h THEN R.focusAt ELSE << >>,
                 entered |-> EnteredAfter(last.entered, R.log, 1),
                 uaf |-> R.uaf, uncheckedMutation |-> R.uncheckedMutation,
                 crashed |-> R.crashed ]

\* the program is running: it has not overflowed its stack and has not
\* dereferenced a destroyed object
Running == ~ last.crashed /\ ~ last.uaf

ZOrders == -1 .. 1

\* the record says whether the child was on the desktop
AddChild(p, c, z, h) ==
    /\ Running /\ p \in alive /\ c \in alive
    /\ Commit(addChildComponent(Cur, p, c, z), "addChildComponent",
              flags[c].hasHeavyweightPeerFlag /\ parentComponent[c] # p, h)

\* removeChildComponent (int index), with any index
RemoveChildAt(p, index, h) ==
    /\ Running /\ p \in alive
    /\ Commit(removeChildComponent(Cur, p, index, TRUE, TRUE),
              "removeChildComponent",
              index >= 0 /\ index < Len(childComponentList[p]), h)

\* removeChildComponent (Component* child)
RemoveChild(p, c, h) ==
    /\ Running /\ p \in alive /\ c \in alive \cup {Null}
    /\ Commit(removeChildComponent(Cur, p, IndexOf(childComponentList[p], c),
                                   TRUE, TRUE),
              "removeChildComponent", c # Null /\ parentComponent[c] = p, h)

RECURSIVE removeAllChildren(_, _)
removeAllChildren(S, this) ==
    IF Len(S.childComponentList[this]) > 0
    THEN removeAllChildren(
             removeChildComponent(S, this, Len(S.childComponentList[this]) - 1,
                                  TRUE, TRUE),
             this)
    ELSE S

RemoveAll(p, h) ==
    /\ Running /\ p \in alive
    /\ Len(childComponentList[p]) > 0
    /\ Commit(removeAllChildren(Cur, p), "removeAllChildren", FALSE, h)

\* delete c; the record says whether c held or contained the focus
Delete(c, h) ==
    /\ Running /\ c \in alive
    /\ Commit(Destroy(Cur, c), "delete", hasKeyboardFocus(Cur, c, TRUE), h)

\* the record says whether the component had a parent
AddToDesktop(c, styleChanged, h) ==
    /\ Running /\ c \in alive
    /\ Commit(addToDesktop(Cur, c, styleChanged), "addToDesktop",
              parentComponent[c] # Null, h)

RemoveFromDesktop(c, h) ==
    /\ Running /\ c \in alive
    /\ flags[c].hasHeavyweightPeerFlag
    /\ Commit(removeFromDesktop(Cur, c), "removeFromDesktop", FALSE, h)

SetVisible(c, v, h) ==
    /\ Running /\ c \in alive
    /\ flags[c].visibleFlag # v
    /\ Commit(setVisible(Cur, c, v), "setVisible", FALSE, h)

SetWantsKeyboardFocus(c, v, h) ==
    /\ Running /\ c \in alive
    /\ flags[c].wantsFocusFlag # v
    /\ Commit(SetFlag(Cur, c, "wantsFocusFlag", v), "setWantsKeyboardFocus",
              FALSE, h)

GrabKeyboardFocus(c, peerFocused, h) ==
    /\ Running /\ c \in alive
    /\ Commit(grabKeyboardFocus([Cur EXCEPT !.peerFocused = peerFocused], c),
              "grabKeyboardFocus", FALSE, h)

\* the z-order operations record whether the component was visible
ToFront(c, h) ==
    /\ Running /\ c \in alive
    /\ Commit(toFront([Cur EXCEPT !.this = c], c, FALSE),
              "toFront", flags[c].visibleFlag, h)

ToBack(c, h) ==
    /\ Running /\ c \in alive
    /\ Commit(toBack(Cur, c), "toBack", flags[c].visibleFlag, h)

ToBehind(c, other, h) ==
    /\ Running /\ c \in alive /\ other \in alive
    /\ Commit(toBehind(Cur, c, other), "toBehind", flags[c].visibleFlag, h)

Init ==
    /\ alive = Comps
    /\ parentComponent = [c \in Comps |-> Null]
    /\ childComponentList = [c \in Comps |-> << >>]
    /\ flags = [c \in Comps |-> NoFlags]
    /\ bounds = [c \in Comps |-> Rect(0, 0, 0, 0)]
    /\ currentlyFocusedComponent = Null
    /\ modalStack = << >>
    /\ mouseListeners = [c \in Comps |-> NoListeners]
    /\ messageQueue = << >>
    /\ settings = NoStoredSettings
    /\ last = NoOp

OpNames == { "addChildComponent", "removeChildComponent", "removeAllChildren",
             "delete", "addToDesktop", "removeFromDesktop", "setVisible",
             "setWantsKeyboardFocus", "grabKeyboardFocus",
             "toFront", "toBack", "toBehind" }

\* Spec keeps every operation in its history
KeptAll == OpNames \X BOOLEAN

\* the component tree, the desktop, visibility and the z-order
Next ==
    \/ \E p \in Comps, c \in Comps, z \in ZOrders : AddChild(p, c, z, KeptAll)
    \/ \E p \in Comps, i \in -1 .. NumComps - 1 : RemoveChildAt(p, i, KeptAll)
    \/ \E p \in Comps, c \in Comps \cup {Null} : RemoveChild(p, c, KeptAll)
    \/ \E p \in Comps : RemoveAll(p, KeptAll)
    \/ \E c \in Comps : Delete(c, KeptAll)
    \/ \E c \in Comps, b \in BOOLEAN : AddToDesktop(c, b, KeptAll)
    \/ \E c \in Comps : RemoveFromDesktop(c, KeptAll)
    \/ \E c \in Comps, v \in BOOLEAN : SetVisible(c, v, KeptAll)
    \/ \E c \in Comps : ToFront(c, KeptAll)
    \/ \E c \in Comps : ToBack(c, KeptAll)
    \/ \E c \in Comps, o \in Comps : ToBehind(c, o, KeptAll)

Spec == Init /\ [][Next]_vars

\* SpecFocus keeps in its history the deletion of a component that held or
\* contained the focus and a removal that names no child
KeptFocus == { << "delete", TRUE >>, << "removeChildComponent", FALSE >> }

\* every component has been made visible before it is put into a tree
InitFocus ==
    /\ alive = Comps
    /\ parentComponent = [c \in Comps |-> Null]
    /\ childComponentList = [c \in Comps |-> << >>]
    /\ flags = [c \in Comps |-> [NoFlags EXCEPT !.visibleFlag = TRUE]]
    /\ bounds = [c \in Comps |-> Rect(0, 0, 0, 0)]
    /\ currentlyFocusedComponent = Null
    /\ modalStack = << >>
    /\ mouseListeners = [c \in Comps |-> NoListeners]
    /\ messageQueue = << >>
    /\ settings = NoStoredSettings
    /\ last = NoOp

\* the keyboard focus in a tree that is built up and torn down
NextFocus ==
    \/ \E p \in Comps, c \in Comps : AddChild(p, c, -1, KeptFocus)
    \/ \E p \in Comps, i \in -1 .. NumComps - 1 : RemoveChildAt(p, i, KeptFocus)
    \/ \E p \in Comps, c \in Comps \cup {Null} : RemoveChild(p, c, KeptFocus)
    \/ \E c \in Comps : Delete(c, KeptFocus)
    \/ \E c \in Comps : AddToDesktop(c, FALSE, KeptFocus)
    \/ \E c \in Comps : RemoveFromDesktop(c, KeptFocus)
    \/ \E c \in Comps, v \in BOOLEAN : SetWantsKeyboardFocus(c, v, KeptFocus)
    \/ \E c \in Comps, b \in BOOLEAN : GrabKeyboardFocus(c, b, KeptFocus)

SpecFocus == InitFocus /\ [][NextFocus]_vars

\* --------------------------------------------------- mouse and modal state
MaxModal == 1

\* the behaviours are followed until MaxDeleted components have been deleted
MaxDeleted == 1

MouseSession == Running /\ Cardinality(Comps \ alive) < MaxDeleted

EnterModalState(c, h) ==
    /\ MouseSession /\ c \in alive
    /\ Len(modalStack) < MaxModal
    /\ Commit(enterModalState(Cur, c, FALSE), "enterModalState", FALSE, h)

ExitModalState(c, h) ==
    /\ MouseSession /\ c \in alive
    /\ flags[c].currentlyModalFlag
    /\ Commit(exitModalState(Cur, c), "exitModalState", FALSE, h)

\* ModalComponentManager::handleAsyncUpdate drops the items that have ended
ModalHandleAsyncUpdate(h) ==
    /\ MouseSession
    /\ \E i \in 1 .. Len(modalStack) : ~ modalStack[i].isActive
    /\ Commit([Cur EXCEPT !.modalStack = SelectSeq(@, LAMBDA m : m.isActive)],
              "handleAsyncUpdate", FALSE, h)

\* There is one mouse: MouseInputSource sends mouseExit (and mouseUp) to the
\* component it leaves before it sends an event to another one, so no other
\* component holds a mouse flag when c receives an enter, down, drag, move
\* or wheel event.
MouseIsFreeFor(c) ==
    \A d \in Comps \ {c} :
        ~ (flags[d].mouseInsideFlag \/ flags[d].mouseOverFlag \/ flags[d].mouseDownFlag)

\* the callbacks an application may override to delete the component the
\* event is for, and the object each is called on
MouseKillers(event) ==
    { "none", event, event \o "@desktop", event \o "@listener" }

KillerOn(S, name, this) ==
    CASE name \in { "mouseEnter@desktop", "mouseExit@desktop", "mouseDown@desktop",
                    "mouseUp@desktop", "mouseDrag@desktop", "mouseMove@desktop",
                    "mouseWheelMove@desktop", "mouseDoubleClick@desktop" } -> Null
      [] name = "childrenChanged" -> S.parentComponent[this]
      [] name = "inputAttemptWhenModal" -> getCurrentlyModalComponent(S)
      [] OTHER -> this

\* the state in which a mouse event is handed to c and the application's
\* override of callback k deletes c
WithKiller(S, k, c) ==
    [S EXCEPT !.killer = k, !.killerOn = KillerOn(S, k, c), !.victim = c,
              !.this = c]

\* the mouse events record whether the component was blocked by a modal one
Blocked(c) == isCurrentlyBlockedByAnotherModalComponent(Cur, c)

MouseEnter(c, k, h) ==
    /\ MouseSession /\ c \in alive /\ MouseIsFreeFor(c)
    /\ Commit(internalMouseEnter(WithKiller(Cur, k, c), c),
              "internalMouseEnter", Blocked(c), h)

MouseExit(c, k, h) ==
    /\ MouseSession /\ c \in alive
    /\ Commit(internalMouseExit(WithKiller(Cur, k, c), c),
              "internalMouseExit", Blocked(c), h)

MouseDown(c, k, dismisses, h) ==
    /\ MouseSession /\ c \in alive /\ MouseIsFreeFor(c)
    /\ Commit(internalMouseDown(
                  [WithKiller(Cur, k, c) EXCEPT !.dismisses = dismisses], c),
              "internalMouseDown", Blocked(c), h)

MouseUp(c, k, dbl, h) ==
    /\ MouseSession /\ c \in alive
    /\ Commit(internalMouseUp([WithKiller(Cur, k, c) EXCEPT !.doubleClick = dbl], c),
              "internalMouseUp", Blocked(c), h)

MouseDrag(c, k, over, h) ==
    /\ MouseSession /\ c \in alive /\ MouseIsFreeFor(c)
    /\ Commit(internalMouseDrag(WithKiller(Cur, k, c), c, over),
              "internalMouseDrag", Blocked(c), h)

MouseMove(c, k, h) ==
    /\ MouseSession /\ c \in alive /\ MouseIsFreeFor(c)
    /\ Commit(internalMouseMove(WithKiller(Cur, k, c), c),
              "internalMouseMove", Blocked(c), h)

MouseWheel(c, k, h) ==
    /\ MouseSession /\ c \in alive /\ MouseIsFreeFor(c)
    /\ Commit(internalMouseWheel(WithKiller(Cur, k, c), c),
              "internalMouseWheel", Blocked(c), h)

MouseOps == { "internalMouseEnter", "internalMouseExit", "internalMouseDown",
              "internalMouseUp", "internalMouseDrag", "internalMouseMove",
              "internalMouseWheel" }

\* SpecMouse keeps the mouse events in its history
KeptMouse == MouseOps \X BOOLEAN

\* the trees an application has built: a chain (each component the only
\* child of the one before) and a star (the first component the parent of
\* all the others)
ChainTree ==
    [ parent |-> [c \in Comps |-> IF c = 1 THEN Null ELSE c - 1],
      children |-> [c \in Comps |-> IF c < NumComps THEN << c + 1 >> ELSE << >>] ]

StarTree ==
    [ parent |-> [c \in Comps |-> IF c = 1 THEN Null ELSE 1],
      children |-> [c \in Comps |->
                       IF c = 1 THEN [i \in 1 .. NumComps - 1 |-> i + 1] ELSE << >>] ]

BuiltTrees == { ChainTree, StarTree }

\* the application has built its tree of visible components, and has or has
\* not asked for them to come to the front when clicked
InitMouse ==
    /\ alive = Comps
    /\ \E t \in BuiltTrees :
          /\ parentComponent = t.parent
          /\ childComponentList = t.children
    /\ \E b \in BOOLEAN :
          flags = [c \in Comps |-> [NoFlags EXCEPT !.visibleFlag = TRUE,
                                                    !.bringToFrontOnClickFlag = b]]
    /\ bounds = [c \in Comps |-> Rect(0, 0, 0, 0)]
    /\ currentlyFocusedComponent = Null
    /\ modalStack = << >>
    /\ mouseListeners = [c \in Comps |-> NoListeners]
    /\ messageQueue = << >>
    /\ settings = NoStoredSettings
    /\ last = NoOp

\* mouse events on a tree in which components become modal and may be
\* deleted by the callbacks
NextMouse ==
    \/ \E c \in Comps : EnterModalState(c, KeptMouse)
    \/ \E c \in Comps : ExitModalState(c, KeptMouse)
    \/ ModalHandleAsyncUpdate(KeptMouse)
    \/ \E c \in Comps, k \in MouseKillers("mouseEnter") : MouseEnter(c, k, KeptMouse)
    \/ \E c \in Comps, k \in MouseKillers("mouseExit") \cup MouseKillers("mouseUp") :
          MouseExit(c, k, KeptMouse)
    \/ \E c \in Comps,
          k \in MouseKillers("mouseDown")
                   \cup { "broughtToFront", "childrenChanged", "inputAttemptWhenModal" } :
          \E dismisses \in BOOLEAN : MouseDown(c, k, dismisses, KeptMouse)
    \/ \E c \in Comps, k \in MouseKillers("mouseUp") \cup MouseKillers("mouseDoubleClick"),
          dbl \in BOOLEAN :
          MouseUp(c, k, dbl, KeptMouse)
    \/ \E c \in Comps, k \in MouseKillers("mouseDrag"), over \in BOOLEAN :
          MouseDrag(c, k, over, KeptMouse)
    \/ \E c \in Comps, k \in MouseKillers("mouseMove") : MouseMove(c, k, KeptMouse)
    \/ \E c \in Comps, k \in MouseKillers("mouseWheelMove") : MouseWheel(c, k, KeptMouse)

SpecMouse == InitMouse /\ [][NextMouse]_vars

\* --------------------------------------------------------------- geometry
Coords == - MaxCoord .. MaxCoord
Sizes == 1 .. MaxSize

\* Component::setOpaque
setOpaque(S, this, shouldBeOpaque) ==
    IF shouldBeOpaque # S.flags[this].opaqueFlag
    THEN Then(SetFlag(S, this, "opaqueFlag", shouldBeOpaque), LAMBDA S1 :
         CheckMessageManagerIsLocked(
             IF S1.flags[this].hasHeavyweightPeerFlag
             THEN addToDesktop(S1, this, TRUE)
             ELSE S1))
    ELSE S

\* Component::setInterceptsMouseClicks
setInterceptsMouseClicks(S, this, allowClicks, allowClicksOnChildComponents) ==
    [S EXCEPT !.flags[this].ignoresMouseClicksFlag = ~ allowClicks,
              !.flags[this].allowChildMouseClicksFlag = allowClicksOnChildComponents]

SetBounds(c, x, y, w, h, hist) ==
    /\ Running /\ c \in alive
    /\ Commit(setBounds(Cur, c, x, y, w, h), "setBounds", FALSE, hist)

SetTopLeftPosition(c, x, y, hist) ==
    /\ Running /\ c \in alive
    /\ Commit(setTopLeftPosition(Cur, c, x, y), "setTopLeftPosition", FALSE, hist)

SetOpaque(c, v, hist) ==
    /\ Running /\ c \in alive
    /\ flags[c].opaqueFlag # v
    /\ Commit(setOpaque(Cur, c, v), "setOpaque", FALSE, hist)

SetInterceptsMouseClicks(c, allowClicks, allowChild, hist) ==
    /\ Running /\ c \in alive
    /\ Commit(setInterceptsMouseClicks(Cur, c, allowClicks, allowChild),
              "setInterceptsMouseClicks", FALSE, hist)

\* the application has built its tree; its components are as constructed
InitGeom ==
    /\ alive = Comps
    /\ \E t \in BuiltTrees :
          /\ parentComponent = t.parent
          /\ childComponentList = t.children
    /\ flags = [c \in Comps |-> NoFlags]
    /\ bounds = [c \in Comps |-> Rect(0, 0, 0, 0)]
    /\ currentlyFocusedComponent = Null
    /\ modalStack = << >>
    /\ mouseListeners = [c \in Comps |-> NoListeners]
    /\ messageQueue = << >>
    /\ settings = NoStoredSettings
    /\ last = NoOp

\* the components of a tree are moved
NextCoord ==
    \E c \in Comps, x \in Coords, y \in Coords : SetTopLeftPosition(c, x, y, {})

SpecCoord == InitGeom /\ [][NextCoord]_vars

\* the components of a tree are laid out in a row, shown, hidden and made
\* opaque
NextClip ==
    \/ \E c \in Comps, x \in Coords, w \in Sizes : SetBounds(c, x, 0, w, 1, {})
    \/ \E c \in Comps, v \in BOOLEAN : SetVisible(c, v, {})
    \/ \E c \in Comps, v \in BOOLEAN : SetOpaque(c, v, {})

SpecClip == InitGeom /\ [][NextClip]_vars

\* the components of a tree are laid out in a row, shown, hidden and told
\* which clicks to take
NextHit ==
    \/ \E c \in Comps, x \in 0 .. MaxCoord : SetBounds(c, x, 0, MaxSize, 1, {})
    \/ \E c \in Comps, v \in BOOLEAN : SetVisible(c, v, {})
    \/ \E c \in Comps, a \in BOOLEAN : SetInterceptsMouseClicks(c, a, TRUE, {})
    \/ \E c \in Comps : SetInterceptsMouseClicks(c, FALSE, FALSE, {})

SpecHit == InitGeom /\ [][NextHit]_vars

\* painting: the peer hands a component a context whose clip is the
\* component's own area
Paint(c, hist) ==
    /\ Running /\ c \in alive
    /\ ~ isEmpty(getLocalBounds(Cur, c))
    /\ Commit(paintEntireComponent(Cur, c, RectPoints(getLocalBounds(Cur, c))),
              "paint", FALSE, hist)

KeptPaint == { << "paint", FALSE >> }

NextPaint ==
    \/ \E c \in Comps, x \in 0 .. MaxCoord, w \in Sizes :
          SetBounds(c, x, 0, w, 1, KeptPaint)
    \/ \E c \in Comps, v \in BOOLEAN : SetVisible(c, v, KeptPaint)
    \/ \E c \in Comps, v \in BOOLEAN : SetOpaque(c, v, KeptPaint)
    \/ \E c \in Comps : Paint(c, KeptPaint)

SpecPaint == InitGeom /\ [][NextPaint]_vars

\* z-order: children are added at any position, removed, reordered and
\* switched between always-on-top and not
SetAlwaysOnTop(c, v, h) ==
    /\ Running /\ c \in alive
    /\ Commit(setAlwaysOnTop(Cur, c, v), "setAlwaysOnTop", v, h)

NextZOrder ==
    \/ \E p \in Comps, c \in Comps, z \in ZOrders : AddChild(p, c, z, {})
    \/ \E p \in Comps, c \in Comps : RemoveChild(p, c, {})
    \/ \E c \in Comps : ToFront(c, {})
    \/ \E c \in Comps : ToBack(c, {})
    \/ \E c \in Comps, o \in Comps : ToBehind(c, o, {})
    \/ \E c \in Comps, v \in BOOLEAN : SetAlwaysOnTop(c, v, {})

SpecZOrder == Init /\ [][NextZOrder]_vars

\* focus hand-over: a showing component that wants the focus is asked to
\* take it, and an override of a focus callback of component `on` may delete
\* component v; the call is entered in the record before its callbacks
FocusCallbacks == { "focusLost", "focusGained", "focusOfChildComponentChanged" }

TakeKeyboardFocus(c, k, on, v, h) ==
    /\ Running /\ c \in alive /\ on \in alive /\ v \in alive
    /\ (isShowing(Cur, c) /\ flags[c].wantsFocusFlag /\ isEnabled(Cur, c)) = TRUE
    /\ Commit(grabKeyboardFocus(
                  Log([Cur EXCEPT !.killer = k, !.killerOn = on, !.victim = v],
                      "grabKeyboardFocus", c), c),
              "grabKeyboardFocus", k # "none", h)

\* setVisible, entered in the record before its callbacks; the record says
\* whether a component that held or contained the focus is being hidden
ShowOrHide(c, v, h) ==
    /\ Running /\ c \in alive
    /\ flags[c].visibleFlag # v
    /\ Commit(setVisible(Log(Cur, "setVisible", c), c, v), "setVisible",
              ~ v /\ hasKeyboardFocus(Cur, c, TRUE), h)

\* removeChildComponent (int), entered in the record with its receiver and
\* with the child and whether the child was showing; the record says whether
\* the child held or contained the focus; an override of a focus callback of
\* component `on` may delete component v
RemoveChildWith(p, index, k, on, v, h) ==
    /\ Running /\ p \in alive /\ on \in alive /\ v \in alive
    /\ index \in 0 .. Len(childComponentList[p]) - 1
    /\ LET child == childComponentList[p][index + 1]
       IN  Commit(removeChildComponent(
                      Log(Log([Cur EXCEPT !.killer = k, !.killerOn = on, !.victim = v],
                              "removeChildComponent", p),
                          IF isShowing(Cur, child) THEN "child:showing"
                                                   ELSE "child:hidden", child),
                      p, index, TRUE, TRUE),
                  "removeChildComponent", hasKeyboardFocus(Cur, child, TRUE), h)

KeptHandOver ==
    ({ "grabKeyboardFocus" } \X BOOLEAN)
        \cup { << "setVisible", TRUE >>, << "removeChildComponent", TRUE >> }

\* the application has built its tree of visible components on the desktop
InitHandOver ==
    /\ alive = Comps
    /\ \E t \in BuiltTrees :
          /\ parentComponent = t.parent
          /\ childComponentList = t.children
    /\ flags = [c \in Comps |->
                   [NoFlags EXCEPT !.visibleFlag = TRUE,
                                   !.wantsFocusFlag = TRUE,
                                   !.hasHeavyweightPeerFlag = (c = 1)]]
    /\ bounds = [c \in Comps |-> Rect(0, 0, 0, 0)]
    /\ currentlyFocusedComponent = Null
    /\ modalStack = << >>
    /\ mouseListeners = [c \in Comps |-> NoListeners]
    /\ messageQueue = << >>
    /\ settings = NoStoredSettings
    /\ last = NoOp

NextHandOver ==
    \/ \E c \in Comps, on \in Comps, v \in Comps, k \in FocusCallbacks :
          TakeKeyboardFocus(c, k, on, v, KeptHandOver)
    \/ \E c \in Comps : TakeKeyboardFocus(c, "none", c, c, KeptHandOver)
    \/ \E c \in Comps, v \in BOOLEAN : SetWantsKeyboardFocus(c, v, KeptHandOver)
    \/ \E c \in Comps, v \in BOOLEAN : ShowOrHide(c, v, KeptHandOver)
    \/ \E p \in Comps, i \in 0 .. NumComps - 1, on \in Comps, v \in Comps,
          k \in FocusCallbacks :
          RemoveChildWith(p, i, k, on, v, KeptHandOver)
    \/ \E p \in Comps, i \in 0 .. NumComps - 1 :
          RemoveChildWith(p, i, "none", p, p, KeptHandOver)

SpecHandOver == InitHandOver /\ [][NextHandOver]_vars

\* mouse listeners are registered and removed, and an event is sent to the
\* listeners of a component and the deep listeners of its parents; the
\* callback of one listener may register or remove a listener
NumListeners == 2
Listeners == 1 .. NumListeners
Reactions ==
    { << "none" >> }
        \cup { << "add", l, d >> : l \in Listeners, d \in BOOLEAN }
        \cup { << "remove", l >> : l \in Listeners }

AddMouseListener(c, l, deep, h) ==
    /\ Running /\ c \in alive
    /\ Commit(addMouseListener(Cur, c, l, deep), "addMouseListener", FALSE, h)

RemoveMouseListener(c, l, h) ==
    /\ Running /\ c \in alive
    /\ Commit(removeMouseListener(Cur, c, l), "removeMouseListener", FALSE, h)

SendMouseEvent(c, who, what, h) ==
    /\ Running /\ c \in alive
    /\ Commit(MouseListenerList_sendMouseEvent(
                  [Cur EXCEPT !.reactor = who, !.reaction = what], c),
              "sendMouseEvent", what # << "none" >>, h)

KeptListeners == { "sendMouseEvent" } \X BOOLEAN

NextListeners ==
    \/ \E c \in Comps, l \in Listeners, d \in BOOLEAN :
          AddMouseListener(c, l, d, KeptListeners)
    \/ \E c \in Comps, l \in Listeners : RemoveMouseListener(c, l, KeptListeners)
    \/ \E c \in Comps, who \in Listeners, what \in Reactions :
          SendMouseEvent(c, who, what, KeptListeners)

SpecListeners == InitGeom /\ [][NextListeners]_vars

\* ------------------------------------------------ several modal components
\* the modal manager's stack is followed up to MaxModalItems items
MaxModalItems == 3

\* enterModalState on any component, modal already or not; the record says
\* whether its currentlyModalFlag was set
EnterModal(c, shouldTakeKeyboardFocus, h) ==
    /\ Running /\ c \in alive
    /\ Len(modalStack) < MaxModalItems
    /\ Commit(enterModalState([Cur EXCEPT !.this = c], c, shouldTakeKeyboardFocus),
              "enterModalState", flags[c].currentlyModalFlag, h)

\* exitModalState, on the message thread, on any component
ExitModal(c, h) ==
    /\ Running /\ c \in alive
    /\ Commit(exitModalState([Cur EXCEPT !.this = c], c),
              "exitModalState", flags[c].currentlyModalFlag, h)

KeptModal == { "enterModalState", "exitModalState" } \X BOOLEAN

NextModal ==
    \/ \E c \in Comps, f \in BOOLEAN : EnterModal(c, f, KeptModal)
    \/ \E c \in Comps : ExitModal(c, KeptModal)
    \/ ModalHandleAsyncUpdate(KeptModal)
    \/ \E c \in Comps, v \in BOOLEAN : SetVisible(c, v, KeptModal)

SpecModal == InitGeom /\ [][NextModal]_vars

\* ------------------------------------------------------------ repainting
\* the rectangles asked to be repainted: inside a component, overhanging
\* it on the left, on the right and above, beside it, and empty ones
RepaintAreas ==
    { Rect(0, 0, 1, 1), Rect(1, 0, 1, 1), Rect(-1, 0, MaxSize + 1, 1),
      Rect(1, 0, MaxSize, 1), Rect(MaxSize, 0, 1, 1), Rect(0, -1, 1, 2),
      Rect(0, -1, 1, 1), Rect(0, 0, 0, 1), Rect(0, 0, 1, -1) }

\* repaint (x, y, w, h) on c; the record begins with the call and the
\* rectangle
Repaint(c, r, hist) ==
    /\ Running /\ c \in alive
    /\ Commit(repaint(Log(Log([Cur EXCEPT !.this = c], "repaint", c), "area", r),
                      c, r.x, r.y, r.w, r.h),
              "repaint", FALSE, hist)

KeptRepaint == { << "repaint", FALSE >> }

\* the application has built a chain of visible components of one pixel
\* and has or has not put it on the desktop
InitRepaint ==
    /\ alive = Comps
    /\ parentComponent = ChainTree.parent
    /\ childComponentList = ChainTree.children
    /\ \E onDesktop \in BOOLEAN :
          flags = [c \in Comps |->
                      [NoFlags EXCEPT !.visibleFlag = TRUE,
                                      !.hasHeavyweightPeerFlag = (onDesktop /\ c = 1)]]
    /\ bounds = [c \in Comps |-> Rect(0, 0, 1, 1)]
    /\ currentlyFocusedComponent = Null
    /\ modalStack = << >>
    /\ mouseListeners = [c \in Comps |-> NoListeners]
    /\ messageQueue = << >>
    /\ settings = NoStoredSettings
    /\ last = NoOp

NextRepaint ==
    \/ \E c \in Comps, x \in 0 .. MaxCoord, w \in Sizes :
          SetBounds(c, x, 0, w, 1, KeptRepaint)
    \/ \E c \in Comps, v \in BOOLEAN : SetVisible(c, v, KeptRepaint)
    \/ \E c \in Comps, r \in RepaintAreas : Repaint(c, r, KeptRepaint)

SpecRepaint == InitRepaint /\ [][NextRepaint]_vars

\* ---------------------------------------------------------- coming to front
\* a parent with three children, so that a child brought to the front leaves
\* two siblings behind
NumFrontComps == 4
FrontComps == 1 .. NumFrontComps
FrontParent == NumFrontComps

\* the orders in which the children can have been added
FrontLists ==
    { l \in [1 .. NumFrontComps - 1 -> FrontComps \ {FrontParent}] :
        \A i, j \in 1 .. NumFrontComps - 1 : i # j => l[i] # l[j] }

\* the application has added the children in some order; some were made
\* always-on-top before they were added, at the place they were given
InitFront ==
    /\ alive = FrontComps
    /\ parentComponent =
           [c \in FrontComps |-> IF c = FrontParent THEN Null ELSE FrontParent]
    /\ \E l \in FrontLists :
          childComponentList =
              [c \in FrontComps |-> IF c = FrontParent THEN l ELSE << >>]
    /\ \E onTop \in SUBSET (FrontComps \ {FrontParent}) :
          flags = [c \in FrontComps |->
                      [NoFlags EXCEPT !.alwaysOnTopFlag = (c \in onTop)]]
    /\ bounds = [c \in FrontComps |-> Rect(0, 0, 0, 0)]
    /\ currentlyFocusedComponent = Null
    /\ modalStack = << >>
    /\ mouseListeners = [c \in FrontComps |-> NoListeners]
    /\ messageQueue = << >>
    /\ settings = NoStoredSettings
    /\ last = NoOp

KeptFront == { << "toFront", FALSE >> }

NextFront ==
    \/ \E c \in FrontComps : ToFront(c, KeptFront)
    \/ \E c \in FrontComps, o \in FrontComps : ToBehind(c, o, KeptFront)
    \/ \E c \in FrontComps, v \in BOOLEAN : SetAlwaysOnTop(c, v, KeptFront)

SpecFront == InitFront /\ [][NextFront]_vars

\* --------------------------------------------------------- stored settings
MaxFlushes == 3          \* calls of flush on one object
MaxSwatchEdits == 1      \* colours the application adds to or takes off the array

\* the "swatchColour" keys a file may hold, one of them beyond the last
\* swatch, and the strings held under them
SwatchKeys == { 0, numSwatchColours }
StoredStrings == { << 1, 0 >> }
RecentFileNames == { "project" }

SwatchProperties ==
    { P \in SUBSET (SwatchKeys \X StoredStrings) :
        \A e, f \in P : e[1] = f[1] => e = f }

\* a step of the settings object; the components are left alone
SettingsStep(T, call) ==
    /\ settings' = [T EXCEPT !.call = call,
                             !.sizeBefore = Len(settings.swatchColours)]
    /\ UNCHANGED << alive, parentComponent, childComponentList, flags, bounds,
                    currentlyFocusedComponent, modalStack, mouseListeners,
                    messageQueue, last >>

\* StoredSettings::StoredSettings
Construct ==
    /\ ~ settings.constructed
    /\ SettingsStep(flush([settings EXCEPT !.constructed = TRUE,
                                           !.flushes = 0], FALSE, FALSE),
                    "StoredSettings")

Flush(keys, saved) ==
    /\ settings.constructed
    /\ settings.flushes < MaxFlushes
    /\ SettingsStep(flush([settings EXCEPT !.flushes = @ + 1], keys, saved),
                    "flush")

\* StoredSettings::~StoredSettings: the members go with the object
DestroySettings(keys, saved, savedAtEnd) ==
    /\ settings.constructed
    /\ LET T == flush(settings, keys, saved)
       IN  SettingsStep([T EXCEPT !.constructed = FALSE,
                                  !.file = IF savedAtEnd THEN T.props ELSE @,
                                  !.props = << >>,
                                  !.swatchColours = << >>,
                                  !.recentFiles = {}],
                        "~StoredSettings")

\* the application adds a colour to swatchColours, or takes the last one off
AddSwatch ==
    /\ settings.constructed
    /\ Len(settings.swatchColours) < numSwatchColours + MaxSwatchEdits
    /\ SettingsStep([settings EXCEPT !.swatchColours = Append(@, 0)], "other")

RemoveSwatch ==
    /\ settings.constructed
    /\ Len(settings.swatchColours) > numSwatchColours - MaxSwatchEdits
    /\ SettingsStep([settings EXCEPT !.swatchColours =
                                         SubSeq(@, 1, Len(@) - 1)], "other")

\* the application sets a swatch property through getProps()
SetValue(i, str) ==
    /\ settings.constructed
    /\ SettingsStep([settings EXCEPT !.props[1].swatch =
                         { e \in @ : e[1] # i } \cup { << i, str >> }], "other")

\* the application opens a file, which goes into recentFiles
AddRecentFile(f) ==
    /\ settings.constructed
    /\ f \notin settings.recentFiles
    /\ SettingsStep([settings EXCEPT !.recentFiles = @ \cup { f }], "other")

\* the program starts with or without a settings file, an older version's
\* file and the files once opened
InitSettings ==
    /\ alive = Comps
    /\ parentComponent = [c \in Comps |-> Null]
    /\ childComponentList = [c \in Comps |-> << >>]
    /\ flags = [c \in Comps |-> NoFlags]
    /\ bounds = [c \in Comps |-> Rect(0, 0, 0, 0)]
    /\ currentlyFocusedComponent = Null
    /\ modalStack = << >>
    /\ mouseListeners = [c \in Comps |-> NoListeners]
    /\ messageQueue = << >>
    /\ last = NoOp
    /\ \E P \in SwatchProperties, hasFile \in BOOLEAN, hasOldFile \in BOOLEAN,
          existing \in SUBSET RecentFileNames :
          settings = [NoStoredSettings EXCEPT
                         !.file = IF hasFile
                                  THEN << [NoProperties EXCEPT !.swatch = P] >>
                                  ELSE << >>,
                         !.oldFile = IF hasOldFile
                                     THEN << [NoProperties EXCEPT !.swatch = P] >>
                                     ELSE << >>,
                         !.existing = existing]

NextSettings ==
    \/ Construct
    \/ \E keys \in BOOLEAN, saved \in BOOLEAN : Flush(keys, saved)
    \/ \E keys \in BOOLEAN, saved \in BOOLEAN, savedAtEnd \in BOOLEAN :
          DestroySettings(keys, saved, savedAtEnd)
    \/ AddSwatch
    \/ RemoveSwatch
    \/ \E i \in SwatchKeys, str \in StoredStrings : SetValue(i, str)
    \/ \E f \in RecentFileNames : AddRecentFile(f)

SpecSettings == InitSettings /\ [][NextSettings]_vars

\* ---------------------------------------------------- moving and resizing
\* the widths and heights asked for, negative ones among them
SizeArgs == -1 .. MaxSize - 1

BoundsCallbacks == { "moved", "resized", "parentSizeChanged",
                     "childBoundsChanged", "componentMovedOrResized" }

\* setBounds on c while the override of callback k on component on deletes
\* component v; the record begins with the call and the rectangle asked for
SetBoundsWith(c, x, y, w, h, k, on, v, hist) ==
    /\ MouseSession /\ c \in alive /\ on \in alive /\ v \in alive
    /\ Commit(setBounds(
                  Log(Log([Cur EXCEPT !.this = c, !.killer = k,
                                      !.killerOn = on, !.victim = v],
                          "setBounds", c),
                      "newBounds", Rect(x, y, w, h)),
                  c, x, y, w, h),
              "setBounds", k # "none", hist)

\* setSize; the record begins with the call and the size asked for, and
\* says whether the width or the height asked for is negative
SetSize(c, w, h, hist) ==
    /\ MouseSession /\ c \in alive
    /\ Commit(setSize(Log(Log([Cur EXCEPT !.this = c], "setSize", c),
                          "newSize", << w, h >>),
                      c, w, h),
              "setSize", w < 0 \/ h < 0, hist)

KeptBounds == { "setBounds", "setSize" } \X BOOLEAN

NextBounds ==
    \/ \E c \in Comps, x \in 0 .. MaxCoord, w \in 0 .. MaxSize - 1,
          k \in { "moved", "resized", "componentMovedOrResized" } :
          SetBoundsWith(c, x, 0, w, 0, k, c, c, KeptBounds)
    \/ \E c \in Comps, x \in 0 .. MaxCoord, w \in 0 .. MaxSize - 1, v \in Comps :
          \E on \in Comps \ {c} :
              SetBoundsWith(c, x, 0, w, 0, "parentSizeChanged", on, v, KeptBounds)
    \/ \E c \in Comps, x \in 0 .. MaxCoord, w \in 0 .. MaxSize - 1 :
          \E on \in Comps \ {c} : \E v \in {c, on} :
              SetBoundsWith(c, x, 0, w, 0, "childBoundsChanged", on, v, KeptBounds)
    \/ \E c \in Comps, x \in 0 .. MaxCoord, w \in SizeArgs :
          SetBoundsWith(c, x, 0, w, 0, "none", c, c, KeptBounds)
    \/ \E c \in Comps, w \in SizeArgs, h \in { -1, 0 } : SetSize(c, w, h, KeptBounds)

SpecBounds == InitGeom /\ [][NextBounds]_vars

\* ------------------------------------------------------- tab traversal
\* moveKeyboardFocusToSibling on c, the traverser answering nextComp for
\* component traversed; the modal component's inputAttemptWhenModal may
\* delete nextComp or leave the modal state.  The record says whether
\* nextComp was blocked by a modal component.
MoveKeyboardFocusToSibling(c, traversed, nextComp, k, dismisses, h) ==
    /\ MouseSession /\ c \in alive /\ traversed \in alive /\ nextComp \in alive
    /\ Commit(moveKeyboardFocusToSibling(
                  [Cur EXCEPT !.this = c, !.traversed = traversed,
                              !.nextComp = nextComp, !.dismisses = dismisses,
                              !.killer = k,
                              !.killerOn = getCurrentlyModalComponent(Cur),
                              !.victim = nextComp], c),
              "moveKeyboardFocusToSibling", Blocked(nextComp), h)

KeptTab == {"moveKeyboardFocusToSibling"} \X BOOLEAN

NextTab ==
    \/ \E c \in Comps : EnterModalState(c, KeptTab)
    \/ \E c \in Comps : ExitModalState(c, KeptTab)
    \/ ModalHandleAsyncUpdate(KeptTab)
    \/ \E c \in Comps : GrabKeyboardFocus(c, TRUE, KeptTab)
    \/ \E c \in Comps, v \in BOOLEAN : SetWantsKeyboardFocus(c, v, KeptTab)
    \/ \E c \in Comps, t \in Comps, n \in Comps,
          k \in { "none", "inputAttemptWhenModal" }, d \in BOOLEAN :
          MoveKeyboardFocusToSibling(c, t, n, k, d, KeptTab)

SpecTab == InitHandOver /\ [][NextTab]_vars

\* ------------------------------------------------------ deferred messages
\* the queue is followed up to MaxMessages undelivered messages
MaxMessages == 2

CommandIds == { 1, 2 }

\* exitModalState called on a thread that is not the message thread, between
\* two operations of the message thread; the record says whether the
\* component's currentlyModalFlag was set
ExitModalOffThread(c, h) ==
    /\ Running /\ c \in alive
    /\ Len(messageQueue) < MaxMessages
    /\ Commit(exitModalState([Cur EXCEPT !.this = c,
                                          !.isThisTheMessageThread = FALSE], c),
              "exitModalState", flags[c].currentlyModalFlag, h)

PostCommandMessage(c, commandId, h) ==
    /\ Running /\ c \in alive
    /\ Len(messageQueue) < MaxMessages
    /\ Commit(postCommandMessage([Cur EXCEPT !.this = c], c, commandId),
              "postCommandMessage", FALSE, h)

\* the message loop delivers the message at the head of the queue; the
\* record has the target of the message and says whether it is an
\* ExitModalStateMessage
DeliverMessage(h) ==
    /\ Running
    /\ messageQueue # << >>
    /\ Commit(IF Head(messageQueue).message = "ExitModalStateMessage"
              THEN ExitModalStateMessage_messageCallback(
                       [Cur EXCEPT !.this = Head(messageQueue).target,
                                   !.messageQueue = Tail(@)],
                       Head(messageQueue))
              ELSE CustomCommandMessage_messageCallback(
                       [Cur EXCEPT !.this = Head(messageQueue).target,
                                   !.messageQueue = Tail(@)],
                       Head(messageQueue)),
              "messageCallback",
              Head(messageQueue).message = "ExitModalStateMessage", h)

KeptMessages ==
    { "exitModalState", "postCommandMessage", "messageCallback" } \X BOOLEAN

NextMessages ==
    \/ \E c \in Comps : EnterModalState(c, KeptMessages)
    \/ \E c \in Comps : ExitModalOffThread(c, KeptMessages)
    \/ \E c \in Comps, id \in CommandIds : PostCommandMessage(c, id, KeptMessages)
    \/ DeliverMessage(KeptMessages)
    \/ \E c \in Comps : Delete(c, KeptMessages)

SpecMessages == InitHandOver /\ [][NextMessages]_vars

\* ------------------------------------------------------------- claims
Occurrences(list, c) == Cardinality({ i \in 1 .. Len(list) : list[i] = c })

\* the persistent part of a state record
Persistent(S) == [ alive |-> S.alive, parentComponent |-> S.parentComponent,
                   childComponentList |-> S.childComponentList,
                   flags |-> S.flags, bounds |-> S.bounds,
                   currentlyFocusedComponent |-> S.currentlyFocusedComponent,
                   modalStack |-> S.modalStack,
                   mouseListeners |-> S.mouseListeners,
                   messageQueue |-> S.messageQueue ]

\* C1: between operations, for all components p and c, c's parent pointer is
\* p if and only if c occurs in p's child list, and c occurs there exactly
\* once, so that no component is in two child lists.
C1_TreeConsistency ==
    \A p \in Comps, c \in Comps :
        /\ (parentComponent[c] = p) <=> (Occurrences(childComponentList[p], c) >= 1)
        /\ Occurrences(childComponentList[p], c) <= 1

\* a component has been destroyed and a child has changed hands
C1_Witness ==
    /\ alive # Comps
    /\ \E c \in alive : parentComponent[c] # Null
    /\ last.name = "addChildComponent"

\* C3: between operations a component with a heavyweight peer has no parent
\* (addToDesktop leaves the parent first, addChildComponent takes the child
\* off the desktop first).
C3_PeerOnlyOnTopLevel ==
    \A c \in Comps : flags[c].hasHeavyweightPeerFlag => parentComponent[c] = Null

\* a child that was on the desktop has just been given a parent
C3_Witness ==
    /\ last.name = "addChildComponent" /\ last.arg = TRUE
    /\ ~ last.crashed
    /\ \E c \in alive : parentComponent[c] # Null

\* C4: after a destructor has finished the focus pointer is null or refers to
\* a live component; in particular it is not the destroyed component.
C4_FocusNeverDangles ==
    currentlyFocusedComponent = Null \/ currentlyFocusedComponent \in alive

\* a component that held or contained the focus has just been destroyed
C4_Witness == last.name = "delete" /\ last.arg = TRUE

\* the mouse callbacks of a component
MouseCallbacks == { "mouseEnter", "mouseExit", "mouseDown", "mouseUp",
                    "mouseDrag", "mouseMove", "mouseWheelMove" }

\* the event deleted no component
NothingDeleted(log) == \A i \in 1 .. Len(log) : log[i][1] # "deleted"

\* C2: while a component M is the current modal component, no mouse callback
\* (mouseEnter, mouseExit, mouseDown, mouseUp, mouseDrag, mouseMove,
\* mouseWheelMove) is invoked on a component that is neither M nor a
\* descendant of M.
C2_ModalExclusivity ==
    (last.name \in MouseOps /\ last.modal # Null /\ NothingDeleted(last.log)) =>
        \A i \in 1 .. Len(last.log) :
            last.log[i][1] \in MouseCallbacks =>
                \/ last.log[i][2] = last.modal
                \/ isParentOf(Cur, last.modal, last.log[i][2])

\* a mouse event for a component that a modal component blocks has been
\* handled without a callback on a component
C2_Witness ==
    /\ last.name = "internalMouseDown" /\ last.arg = TRUE
    /\ last.modal # Null
    /\ last.log = << << "inputAttemptWhenModal", last.modal >>,
                     << "mouseDown@desktop", Null >> >>

\* C5: if a callback invoked during internalMouseEnter, internalMouseExit,
\* internalMouseDown, internalMouseUp, internalMouseDrag, internalMouseMove or
\* internalMouseWheel deletes the component the event is for, no further
\* component or listener callback is invoked for the event and no flag of the
\* deleted component is read or written afterwards.
C5_DeletionEndsDispatch ==
    last.name \in MouseOps =>
        /\ ~ last.uaf
        /\ \A i \in 1 .. Len(last.log) :
              last.log[i][1] = "deleted" => i = Len(last.log)

\* the mouseUp callback deleted its component and the dispatch stopped there
C5_Witness ==
    /\ last.name = "internalMouseUp"
    /\ ~ last.uaf
    /\ Len(last.log) >= 2
    /\ last.log[1][1] = "mouseUp"
    /\ last.log[Len(last.log)][1] = "deleted"

\* the sum of the positions of the components from c up to, but excluding,
\* its ancestor a
RECURSIVE PathSum(_, _)
PathSum(c, a) ==
    IF c = a THEN Point(0, 0)
    ELSE LET rest == PathSum(parentComponent[c], a)
         IN  Point(bounds[c].x + rest.x, bounds[c].y + rest.y)

\* the points tried, the ends of the range of an int among them
TestCoords == { MinInt, -1, 0, 1, MaxInt }
TestPoints == { Point(x, y) : x \in TestCoords, y \in TestCoords }

\* C7: for untransformed components of a tree that is not on the desktop and
\* an ancestor A of C, C.getLocalPoint(A, p) is p minus the sum of the
\* positions of the components from C up to but excluding A,
\* A.getLocalPoint(C, q) adds the same sum, so A.getLocalPoint(C,
\* C.getLocalPoint(A, p)) = p for every point p (in the arithmetic of int);
\* and X.getLocalPoint(X, p) = p.
C7_CoordinateChaining ==
    \A C \in Comps, p \in TestPoints :
        /\ getLocalPoint(Cur, C, C, p) = p
        /\ \A A \in Comps :
              (isParentOf(Cur, A, C)
                  /\ ~ flags[getTopLevelComponent(Cur, C)].hasHeavyweightPeerFlag) =>
                 LET sum == PathSum(C, A)
                 IN  /\ getLocalPoint(Cur, C, A, p)
                           = Point(WrapInt(p.x - sum.x), WrapInt(p.y - sum.y))
                     /\ getLocalPoint(Cur, A, C, p)
                           = Point(WrapInt(p.x + sum.x), WrapInt(p.y + sum.y))
                     /\ getLocalPoint(Cur, A, C, getLocalPoint(Cur, C, A, p)) = p

\* a component two levels below its ancestor, both steps of the path with a
\* position that is not the origin
C7_Witness ==
    \E C \in Comps, A \in Comps :
        /\ isParentOf(Cur, A, C) /\ parentComponent[C] # A
        /\ bounds[C].x # 0 /\ bounds[C].y # 0
        /\ bounds[parentComponent[C]].x # 0 /\ bounds[parentComponent[C]].y # 0
        /\ PathSum(C, A) # Point(0, 0)

\* the points of a component's local bounds
LocalPoints(c) == RectPoints(Rect(0, 0, bounds[c].w, bounds[c].h))

\* point p of component c lies in the bounds of component d, an ancestor or
\* a descendant of c
InBoundsOf(c, p, d) ==
    IF isParentOf(Cur, d, c)
    THEN LET o == PathSum(c, d) IN Point(p.x + o.x, p.y + o.y) \in LocalPoints(d)
    ELSE LET o == PathSum(d, c) IN Point(p.x - o.x, p.y - o.y) \in LocalPoints(d)

InsideEveryAncestor(c, p) ==
    \A a \in Comps : isParentOf(Cur, a, c) => InBoundsOf(c, p, a)

\* the components strictly between c and its descendant d
Between(c, d) == { q \in Comps : isParentOf(Cur, c, q) /\ isParentOf(Cur, q, d) }

\* d is a visible opaque descendant of c reached through visible components
\* that are not opaque
Reached(c, d) ==
    /\ isParentOf(Cur, c, d)
    /\ flags[d].visibleFlag /\ flags[d].opaqueFlag
    /\ \A q \in Between(c, d) : flags[q].visibleFlag /\ ~ flags[q].opaqueFlag

\* p lies in the bounds of such a descendant
CoveredByBounds(c, p) == \E d \in Comps : Reached(c, d) /\ InBoundsOf(c, p, d)

\* p lies in the bounds of such a descendant and of every component between
\* (a component paints inside its parent only)
CoveredByClipped(c, p) ==
    \E d \in Comps :
        /\ Reached(c, d) /\ InBoundsOf(c, p, d)
        /\ \A q \in Between(c, d) : InBoundsOf(c, p, q)

\* C8 as stated: getVisibleArea(result, false) is the set of the points of the
\* local bounds that lie in the bounds of every ancestor and not in the
\* bounds of a visible opaque descendant reached through visible descendants
\* that are not opaque.
C8_VisibleAreaAsStated ==
    \A c \in Comps :
        getVisibleArea(Cur, c, FALSE)
            = { p \in LocalPoints(c) : InsideEveryAncestor(c, p) /\ ~ CoveredByBounds(c, p) }

\* C8, amended: a descendant covers only the points of its bounds that lie in
\* the bounds of every component between it and the receiver; with that,
\* getVisibleArea(result, false) is exactly the set of the points of the local
\* bounds that lie in the bounds of every ancestor and are not covered, and it
\* is empty when the component lies outside an ancestor's bounds.
C8_VisibleAreaClipped ==
    \A c \in Comps :
        getVisibleArea(Cur, c, FALSE)
            = { p \in LocalPoints(c) : InsideEveryAncestor(c, p) /\ ~ CoveredByClipped(c, p) }

\* an opaque grandchild reaches out of its parent over a point of the
\* receiver, which stays visible; and a component is partly outside its parent
C8_Witness ==
    /\ \E c \in Comps : \E p \in LocalPoints(c) :
          /\ CoveredByBounds(c, p) /\ ~ CoveredByClipped(c, p)
          /\ p \in getVisibleArea(Cur, c, FALSE)
    /\ \E c \in Comps : \E p \in LocalPoints(c) : ~ InsideEveryAncestor(c, p)

\* the points tried by the hit tests
HitPoints == { Point(x, y) : x \in -1 .. MaxCoord + MaxSize, y \in -1 .. 1 }

\* the component takes the point: it lies in its local bounds and passes hitTest
TakesPoint(c, p) == p \in LocalPoints(c) /\ hitTest(Cur, c, p.x, p.y)

\* C10: R.getComponentAt(p) is null if R is not visible or p fails R's hit
\* test (p outside the local bounds, or hitTest false); otherwise it is the
\* result of the child of highest index whose own getComponentAt succeeds for
\* the converted point, and R when no child succeeds; so the result and
\* every component between it and R is visible and takes the point.
C10_RecursiveHitTest ==
    \A R \in Comps, p \in HitPoints :
        LET res == getComponentAt(Cur, R, p)
            list == childComponentList[R]
            sub(i) == getComponentAt(Cur, list[i],
                                     Point(p.x - bounds[list[i]].x,
                                           p.y - bounds[list[i]].y))
            succ == { i \in 1 .. Len(list) : sub(i) # Null }
        IN  /\ (~ flags[R].visibleFlag \/ ~ TakesPoint(R, p)) => res = Null
            /\ (flags[R].visibleFlag /\ TakesPoint(R, p)) =>
                  IF succ = {} THEN res = R
                  ELSE res = sub(CHOOSE i \in succ : \A j \in succ : j <= i)
            /\ res # Null =>
                  \A X \in {res, R} \cup Between(R, res) :
                      /\ X = R \/ isParentOf(Cur, R, X)
                      /\ flags[X].visibleFlag
                      /\ LET o == PathSum(X, R)
                         IN  TakesPoint(X, Point(p.x - o.x, p.y - o.y))

\* a point that two overlapping siblings take is given to the one in front
C10_Witness ==
    \E R \in Comps, p \in HitPoints :
        /\ Len(childComponentList[R]) >= 2
        /\ getComponentAt(Cur, R, p) = childComponentList[R][2]
        /\ getComponentAt(Cur, childComponentList[R][1],
                          Point(p.x - bounds[childComponentList[R][1]].x,
                                p.y - bounds[childComponentList[R][1]].y)) # Null

\* the operations that change the hierarchy
HierarchyOps == { "addChildComponent", "removeChildComponent", "toFront",
                  "toBehind", "toBack", "addToDesktop", "removeFromDesktop" }

\* C6: each of addChildComponent, removeChildComponent, toFront, toBehind,
\* toBack, addToDesktop and removeFromDesktop asserts that the calling thread
\* holds the message-manager lock before it changes a child list or a parent
\* pointer, whatever the state of the component (visible or not).
C6_LockAssertedBeforeMutation ==
    last.name \in HierarchyOps => ~ last.uncheckedMutation

\* a visible child has been moved in its parent's list by toBack, which
\* reached the assertion through the repaint of the child
C6_Witness ==
    /\ last.name = "toBack" /\ last.arg = TRUE
    /\ last.log # << >>
    /\ ~ last.uncheckedMutation

\* C9: removeChildComponent with an index outside the list, or with a
\* component (or null) that is not a child of the receiver, returns null and
\* changes nothing: no child list, parent pointer or focus state, and no
\* callback is invoked.
C9_InvalidRemovalIsNoOp ==
    Running =>
      \A p \in alive :
        /\ \A i \in -2 .. NumComps + 1 :
              (i < 0 \/ i >= Len(childComponentList[p])) =>
                 LET R == removeChildComponent(Cur, p, i, TRUE, TRUE)
                 IN  /\ Persistent(R) = Persistent(Cur)
                     /\ R.log = << >>
                     /\ R.ret = Null
        /\ \A c \in alive \cup {Null} :
              (c = Null \/ parentComponent[c] # p) =>
                 LET R == removeChildComponent(
                              Cur, p, IndexOf(childComponentList[p], c), TRUE, TRUE)
                 IN  /\ Persistent(R) = Persistent(Cur)
                     /\ R.log = << >>

\* such a removal has just been made on a tree that holds the focus
C9_Witness ==
    /\ last.name = "removeChildComponent" /\ last.arg = FALSE
    /\ last.log = << >>
    /\ currentlyFocusedComponent # Null
    /\ \E p \in alive : Len(childComponentList[p]) > 0

\* ---- C11: recursive painting order
RECURSIVE PaintOrderOf(_)
RECURSIVE PaintOrderOfChildren(_, _)
\* the calls the stated order prescribes for the children of c from index i
PaintOrderOfChildren(c, i) ==
    IF i > Len(childComponentList[c]) THEN << >>
    ELSE (IF flags[childComponentList[c][i]].visibleFlag
          THEN PaintOrderOf(childComponentList[c][i]) ELSE << >>)
         \o PaintOrderOfChildren(c, i + 1)

\* own content, then the visible children back to front, then paintOverChildren
PaintOrderOf(c) ==
    << << "paint", c >> >> \o PaintOrderOfChildren(c, 1)
        \o << << "paintOverChildren", c >> >>

RECURSIVE IsSubsequence(_, _)
IsSubsequence(a, b) ==
    IF a = << >> THEN TRUE
    ELSE IF b = << >> THEN FALSE
    ELSE IF Head(a) = Head(b) THEN IsSubsequence(Tail(a), Tail(b))
    ELSE IsSubsequence(a, Tail(b))

PaintedRoot == last.log[Len(last.log)][2]

\* nothing is opaque and every component covers the whole painted area
NothingObscured ==
    \A d \in Comps : /\ ~ flags[d].opaqueFlag
                     /\ bounds[d] = Rect(0, 0, bounds[PaintedRoot].w, 1)

C11_InvisibleSubtreeSkipped ==
    /\ last.name = "paint"
    /\ \E d \in Comps : /\ parentComponent[d] = PaintedRoot
                        /\ ~ flags[d].visibleFlag
                        /\ \E e \in Comps : /\ parentComponent[e] = d
                                            /\ flags[e].visibleFlag
                                            /\ intersects(getLocalBounds(Cur, d), bounds[e])

\* ---- C12: z-order invariant
\* C12: in every child list every always-on-top child has a higher index than
\* every child that is not always-on-top, whatever sequence of
\* addChildComponent, removeChildComponent, toFront, toBack, toBehind and
\* setAlwaysOnTop has run without a failure.
C12_AlwaysOnTopAboveOthers ==
    Running =>
        \A p \in alive :
            \A i, j \in 1 .. Len(childComponentList[p]) :
                /\ flags[childComponentList[p][i]].alwaysOnTopFlag
                /\ ~ flags[childComponentList[p][j]].alwaysOnTopFlag
                => i > j

\* ---- C13: acyclic hierarchy
\* following parentComponent from c reaches null in at most n steps
RECURSIVE ReachesNull(_, _)
ReachesNull(c, n) ==
    IF c = Null THEN TRUE
    ELSE IF n = 0 THEN FALSE
    ELSE ReachesNull(parentComponent[c], n - 1)

\* C13: after any sequence of addChildComponent calls, adding a component to
\* itself or to one of its descendants included, following parentComponent
\* from any component reaches null in finitely many steps (at most as many
\* as there are components), so that getTopLevelComponent and isParentOf
\* terminate.
C13_AcyclicHierarchy ==
    \A c \in alive : ReachesNull(c, NumComps)

\* ---- C14: focus hand-over ordering
\* the last operation moved the focus from a component A to another, B
HandOverFrom == last.focusAt[1]
HandOverTo == last.log[1][2]
IsHandOver ==
    /\ last.name = "grabKeyboardFocus"
    /\ Len(last.log) >= 2
    /\ HandOverFrom # Null /\ HandOverFrom # HandOverTo
    /\ last.log[2] = << "focusLost", HandOverFrom >>

\* C14: when takeKeyboardFocus moves the focus from A to B,
\* currentlyFocusedComponent is already B when A's focusLost is entered, every
\* focusGained of B comes after A's focusLost, and B's focusGained is entered
\* only with currentlyFocusedComponent still B and B alive.
C14_HandOverOrdering ==
    IsHandOver =>
        /\ last.focusAt[2] = HandOverTo
        /\ \A i \in 1 .. Len(last.log) :
              last.log[i] = << "focusGained", HandOverTo >> =>
                  /\ i > 2
                  /\ last.focusAt[i] = HandOverTo
        /\ ~ last.uaf

\* the focus has passed from A to B with no interference: A's focusLost,
\* then B's focusGained
C14_Witness ==
    /\ IsHandOver
    /\ \E i \in 3 .. Len(last.log) : last.log[i] = << "focusGained", HandOverTo >>
    /\ currentlyFocusedComponent = HandOverTo

\* A's focusLost has deleted B, and B's focusGained was not sent
C14_GainWithheld ==
    /\ IsHandOver
    /\ HandOverTo \notin alive
    /\ \A i \in 1 .. Len(last.log) : last.log[i] # << "focusGained", HandOverTo >>

\* ---- C15: contains-focus flag consistency
\* C15: between operations every live component's childCompFocusedFlag equals
\* hasKeyboardFocus(true): it is set exactly for the focused component and
\* its ancestors.
C15_ContainsFocusFlagConsistent ==
    Running =>
        \A c \in alive :
            flags[c].childCompFocusedFlag = hasKeyboardFocus(Cur, c, TRUE)

\* ---- C16: hiding releases the focus
\* the component that the last operation was called on
Receiver == last.log[1][2]

\* C16: after setVisible(false) has returned on a component that held or
\* contained the keyboard focus, currentlyFocusedComponent is neither that
\* component nor one of its descendants, whether or not it has a parent and
\* whether or not another component accepts the focus.
C16_HidingReleasesFocus ==
    (last.name = "setVisible" /\ last.arg) =>
        /\ currentlyFocusedComponent # Receiver
        /\ ~ isParentOf(Cur, Receiver, currentlyFocusedComponent)

\* ---- C17: removal releases the focus
\* the child that the last removeChildComponent removed
Removed == last.log[2][2]
RemovedWasShowing == last.log[2][1] = "child:showing"

\* a child that held or contained the focus has been removed, and no
\* callback deleted a component
FocusedChildRemoved ==
    /\ last.name = "removeChildComponent" /\ last.arg
    /\ NothingDeleted(last.log)

\* C17: after removeChildComponent has returned for a child that held or
\* contained the focus, currentlyFocusedComponent is neither the removed
\* child nor one of its descendants; if the child was showing, the former
\* parent has been asked to grab the focus, so that a parent that wants the
\* focus now has it; if the child was not showing, nobody has been asked and
\* no component has the focus.
C17_RemovalReleasesFocus ==
    FocusedChildRemoved =>
        /\ currentlyFocusedComponent # Removed
        /\ ~ isParentOf(Cur, Removed, currentlyFocusedComponent)
        /\ (RemovedWasShowing /\ flags[Receiver].wantsFocusFlag)
               => /\ currentlyFocusedComponent = Receiver
                  /\ Occurrences(last.log, << "focusGained", Receiver >>) = 1
        /\ ~ RemovedWasShowing => currentlyFocusedComponent = Null

\* a showing child with the focus has been removed and its parent has taken
\* the focus
C17_Witness ==
    /\ FocusedChildRemoved
    /\ RemovedWasShowing
    /\ currentlyFocusedComponent = Receiver

\* ---- C18: removeChildComponent and the deletion of its receiver
\* the position in the record at which the receiver was deleted, 0 if never
ReceiverDeletedAt ==
    IF \E i \in 1 .. Len(last.log) : last.log[i] = << "deleted", Receiver >>
    THEN CHOOSE i \in 1 .. Len(last.log) : last.log[i] = << "deleted", Receiver >>
    ELSE 0

\* C18: if a callback run while removeChildComponent gives the focus away or
\* while the receiver re-grabs the focus deletes the receiver, the method
\* returns without touching the deleted receiver again and without invoking
\* its childrenChanged.
C18_ReceiverDeletionSafe ==
    (last.name = "removeChildComponent" /\ last.arg /\ ReceiverDeletedAt > 0) =>
        /\ ~ last.uaf
        /\ \A i \in ReceiverDeletedAt .. Len(last.log) :
              last.log[i] # << "childrenChanged", Receiver >>

\* ---- C19: at-most-once delivery under reentrant mutation
\* C19: during one sendMouseEvent each listener of a list is called at most
\* once from that list, and no index outside the listener array is used,
\* also when the callback of a listener adds or removes a listener (itself
\* or another) of the list being iterated.
C19_AtMostOnceDelivery ==
    last.name = "sendMouseEvent" =>
        /\ ~ last.uaf
        /\ \A p \in Comps, l \in Listeners :
              Occurrences(last.log, << "mouseListener", << p, l >> >>) <= 1

\* ---- C20: mouse down/up pairing
\* C20: in every mouse event on a component that stays alive, a mouseUp
\* callback is delivered only to a component whose mouseDownFlag is set, and
\* once; the flag is set only by an event that delivers mouseDown, so that
\* every mouseUp follows a mouseDown with no other mouseUp between; and
\* conversely the flag goes from true to false only in an event that
\* delivers mouseUp to the component.
C20_DownUpPairing ==
    [][ last'.name \in MouseOps =>
          \A c \in alive' :
              /\ Occurrences(last'.log, << "mouseUp", c >>) >= 1
                    => /\ flags[c].mouseDownFlag
                       /\ Occurrences(last'.log, << "mouseUp", c >>) = 1
              /\ (~ flags[c].mouseDownFlag /\ flags'[c].mouseDownFlag)
                    => Occurrences(last'.log, << "mouseDown", c >>) >= 1
              /\ (flags[c].mouseDownFlag /\ ~ flags'[c].mouseDownFlag)
                    => Occurrences(last'.log, << "mouseUp", c >>) >= 1
      ]_vars

\* ---- C21: alternation of mouseEnter and mouseExit
\* the callbacks log[i], log[i+1], ... keep the alternation, for each
\* component, of mouseEnter and mouseExit, given the components entered
RECURSIVE Alternates(_, _, _)
Alternates(entered, log, i) ==
    IF i > Len(log) THEN TRUE
    ELSE /\ log[i][1] = "mouseEnter" => log[i][2] \notin entered
         /\ log[i][1] = "mouseExit" => log[i][2] \in entered
         /\ Alternates(EnteredAfter(entered, << log[i] >>, 1), log, i + 1)

\* C21: over any sequence of internal mouse events the mouseEnter and
\* mouseExit callbacks of a component alternate, starting with mouseEnter:
\* no mouseEnter is invoked while an earlier one is unmatched, and no
\* mouseExit is invoked unless a mouseEnter is unmatched.
C21_EnterExitAlternation ==
    [][ last'.name \in MouseOps => Alternates(last.entered, last'.log, 1) ]_vars

\* ---- C22: internalMouseExit while the button is down
\* the callbacks of the mouseUp stage of an event
MouseUpStage == { "mouseUp", "mouseUp@desktop", "mouseUp@listener" }

\* C22: internalMouseExit on a component whose mouseDownFlag is set delivers
\* mouseUp first; mouseExit, which it delivers if the mouse was inside or
\* over the component, comes after the whole mouseUp stage; and when the
\* component has not been deleted its mouseInsideFlag, mouseOverFlag and
\* mouseDownFlag are all false afterwards.
C22_ExitWhileDown ==
    [][ ( /\ last'.name = "internalMouseExit"
          /\ last'.this # Null
          /\ flags[last'.this].mouseDownFlag ) =>
          /\ Len(last'.log) >= 1
          /\ last'.log[1] = << "mouseUp", last'.this >>
          /\ \A i, j \in 1 .. Len(last'.log) :
                ( /\ last'.log[i] = << "mouseExit", last'.this >>
                  /\ last'.log[j][1] \in MouseUpStage ) => j < i
          /\ last'.this \in alive' =>
                /\ Occurrences(last'.log, << "mouseExit", last'.this >>)
                      = IF flags[last'.this].mouseInsideFlag
                              \/ flags[last'.this].mouseOverFlag
                        THEN 1 ELSE 0
                /\ ~ flags'[last'.this].mouseInsideFlag
                /\ ~ flags'[last'.this].mouseOverFlag
                /\ ~ flags'[last'.this].mouseDownFlag
      ]_vars

\* internalMouseExit has delivered mouseUp and then mouseExit to a component
\* that is still alive
C22_Witness ==
    /\ last.name = "internalMouseExit"
    /\ last.this \in alive
    /\ Len(last.log) >= 2
    /\ last.log[1] = << "mouseUp", last.this >>
    /\ Occurrences(last.log, << "mouseExit", last.this >>) = 1

ActiveItems(c) ==
    Cardinality({ i \in 1 .. Len(modalStack) :
                     modalStack[i].component = c /\ modalStack[i].isActive })

\* C24: enterModalState on a component whose currentlyModalFlag is set,
\* topmost or not, does not call startModal again, so that after any
\* sequence of enterModalState and exitModalState calls each component is
\* registered at most once in the modal manager's stack.
C24_NoDoubleRegistration ==
    /\ \A c \in alive : ActiveItems(c) <= 1
    /\ (last.name = "enterModalState" /\ last.arg) =>
           ActiveItems(last.this) <= 1

ComponentsUnchanged ==
    UNCHANGED << alive, parentComponent, childComponentList, flags, bounds,
                 currentlyFocusedComponent, modalStack, mouseListeners >>

\* C26: exitModalState called off the message thread changes no component
\* state and posts a message for the component (one message, when its
\* currentlyModalFlag is set).  A message delivered after its target has
\* been destroyed has no effect and touches no destroyed object; a message
\* delivered to a live target is consumed and runs exitModalState on the
\* target on the message thread, or handleCommandMessage with the posted
\* commandId, exactly once.
C26_DeferredMessagesGuarded ==
    [][ /\ last'.name = "exitModalState" =>
              /\ ComponentsUnchanged
              /\ messageQueue' =
                    IF last'.arg
                    THEN Append(messageQueue,
                                [message |-> "ExitModalStateMessage",
                                 target |-> last'.this, value |-> 0])
                    ELSE messageQueue
        /\ last'.name = "messageCallback" =>
              /\ messageQueue' = Tail(messageQueue)
              /\ ~ last'.uaf
              /\ last'.this = Head(messageQueue).target
              /\ IF Head(messageQueue).target \notin alive
                 THEN ComponentsUnchanged /\ last'.log = << >>
                 ELSE IF last'.arg
                 THEN /\ Persistent(Cur)' =
                            Persistent([exitModalState(Cur, Head(messageQueue).target)
                                           EXCEPT !.messageQueue = Tail(@)])
                      /\ ~ flags'[Head(messageQueue).target].currentlyModalFlag
                      /\ last'.log = << >>
                 ELSE /\ ComponentsUnchanged
                      /\ last'.log =
                            << << "commandId", Head(messageQueue).value >>,
                               << "handleCommandMessage", Head(messageQueue).target >> >>
      ]_vars

\* a message has been delivered after its target was destroyed
C26_Witness ==
    /\ last.name = "messageCallback"
    /\ last.this # Null
    /\ last.this \notin alive

\* an ExitModalStateMessage has ended the modal state of its live target
C26_WitnessDelivered ==
    /\ last.name = "messageCallback" /\ last.arg
    /\ last.this \in alive
    /\ \E i \in 1 .. Len(modalStack) :
          modalStack[i].component = last.this /\ ~ modalStack[i].isActive

\* ---- C27: tab traversal and modality
\* moveKeyboardFocusToSibling has got component n from the traverser
TabCandidate(n) ==
    /\ last'.name = "moveKeyboardFocusToSibling"
    /\ Len(last'.log) >= 1
    /\ last'.log[1] = << "getNextComponent", n >>

C27_WitnessBlocked ==
    /\ last.name = "moveKeyboardFocusToSibling" /\ last.arg
    /\ Len(last.log) = 2
    /\ last.log[1][2] \in alive
    /\ isCurrentlyBlockedByAnotherModalComponent(Cur, last.log[1][2])

\* ---- C28: the notifications of setBounds
\* the place of a callback in the sequence of sendMovedResizedMessages, 0
\* for any other entry of the record
BoundsStage(e, this) ==
    CASE e = << "moved", this >> -> 1
      [] e = << "resized", this >> -> 2
      [] e[1] = "parentSizeChanged" -> 3
      [] e[1] = "childBoundsChanged" -> 4
      [] e = << "componentMovedOrResized", this >> -> 5
      [] OTHER -> 0

\* the callbacks of a setBounds during which nothing is deleted
ExpectedNotifications(this, wasMoved, wasResized) ==
    (IF wasMoved THEN << << "moved", this >> >> ELSE << >>)
    \o (IF wasResized
        THEN << << "resized", this >> >>
             \o [i \in 1 .. Len(childComponentList[this]) |->
                    << "parentSizeChanged",
                       childComponentList[this][Len(childComponentList[this]) + 1 - i] >>]
        ELSE << >>)
    \o (IF parentComponent[this] # Null
        THEN << << "childBoundsChanged", parentComponent[this] >> >>
        ELSE << >>)
    \o << << "componentMovedOrResized", this >> >>

\* the rectangle that setBounds stores when asked for rectangle r
Stored(r) == Rect(r.x, r.y, Max(r.w, 0), Max(r.h, 0))

\* what C28 says of a setBounds on this that moves it (wasMoved) or
\* resizes it (wasResized)
NotificationsInOrder(this, wasMoved, wasResized) ==
    /\ ~ last'.uaf
    /\ \A i, j \in 3 .. Len(last'.log) :
          ( /\ i < j
            /\ BoundsStage(last'.log[i], this) # 0
            /\ BoundsStage(last'.log[j], this) # 0 ) =>
              /\ BoundsStage(last'.log[i], this) <= BoundsStage(last'.log[j], this)
              /\ BoundsStage(last'.log[i], this) = BoundsStage(last'.log[j], this)
                    => BoundsStage(last'.log[i], this) = 3
    /\ \A i \in 3 .. Len(last'.log) :
          /\ BoundsStage(last'.log[i], this) = 1 => wasMoved
          /\ BoundsStage(last'.log[i], this) \in {2, 3} => wasResized
          /\ BoundsStage(last'.log[i], this) = 3 =>
                IndexOf(childComponentList[this], last'.log[i][2]) >= 0
          /\ BoundsStage(last'.log[i], this) = 4 =>
                last'.log[i][2] = parentComponent[this]
    /\ NothingDeleted(last'.log) =>
          SubSeq(last'.log, 3, Len(last'.log))
              = ExpectedNotifications(this, wasMoved, wasResized)
    /\ this \in alive' =>
          /\ Occurrences(last'.log, << "moved", this >>) = IF wasMoved THEN 1 ELSE 0
          /\ Occurrences(last'.log, << "resized", this >>) = IF wasResized THEN 1 ELSE 0
          /\ Occurrences(last'.log, << "componentMovedOrResized", this >>) = 1
          /\ parentComponent'[this] # Null =>
                Occurrences(last'.log,
                            << "childBoundsChanged", parentComponent'[this] >>) = 1
    /\ this \notin alive' =>
          last'.log[Len(last'.log)] = << "deleted", this >>

\* C28: a setBounds call that changes neither position nor size invokes no
\* callback and changes no state.  Otherwise moved() is invoked iff the
\* position changed and resized() iff the size changed, and the callbacks
\* come in the order moved, resized, parentSizeChanged on each child (from
\* the last to the first, only when resized), childBoundsChanged on the
\* parent, the componentMovedOrResized listeners; the sequence stops as soon
\* as a callback has deleted the component.
C28_SetBoundsNotifications ==
    [][ last'.name = "setBounds" =>
          /\ Len(last'.log) >= 2
          /\ last'.log[1] = << "setBounds", last'.this >>
          /\ last'.log[2][1] = "newBounds"
          /\ IF bounds[last'.this] = Stored(last'.log[2][2])
             THEN Len(last'.log) = 2 /\ ComponentsUnchanged
             ELSE NotificationsInOrder(
                      last'.this,
                      bounds[last'.this].x # Stored(last'.log[2][2]).x
                          \/ bounds[last'.this].y # Stored(last'.log[2][2]).y,
                      bounds[last'.this].w # Stored(last'.log[2][2]).w
                          \/ bounds[last'.this].h # Stored(last'.log[2][2]).h)
      ]_vars

\* a component with a parent and a child has been moved and resized and
\* all five notifications have been sent
C28_Witness ==
    /\ last.name = "setBounds"
    /\ Len(last.log) = 7
    /\ last.log[3][1] = "moved"
    /\ last.log[4][1] = "resized"
    /\ last.log[5][1] = "parentSizeChanged"
    /\ last.log[6][1] = "childBoundsChanged"
    /\ last.log[7][1] = "componentMovedOrResized"

\* resized() has deleted the component and nothing was sent after it
C28_WitnessDeleted ==
    /\ last.name = "setBounds"
    /\ Len(last.log) >= 4
    /\ last.log[1][2] \notin alive
    /\ \E i \in 3 .. Len(last.log) : last.log[i] = << "resized", last.log[1][2] >>

\* ---- C29: sizes are never negative
\* C29: in every reachable state the width and the height of every
\* component are >= 0; setBounds and setSize store 0 for a width or a
\* height given as a negative number (and the number given otherwise).
C29_NonNegativeSize ==
    /\ \A c \in Comps : bounds[c].w >= 0 /\ bounds[c].h >= 0
    /\ (last.name = "setBounds" /\ last.this \in alive) =>
           /\ bounds[last.this].w = Max(last.log[2][2].w, 0)
           /\ bounds[last.this].h = Max(last.log[2][2].h, 0)
    /\ (last.name = "setSize" /\ last.this \in alive) =>
           /\ bounds[last.this].w = Max(last.log[2][2][1], 0)
           /\ bounds[last.this].h = Max(last.log[2][2][2], 0)

\* setSize has been given a negative width and a negative height and has
\* stored 0 for both, and setBounds a negative width
C29_Witness ==
    \/ /\ last.name = "setSize" /\ last.arg
       /\ last.this \in alive
       /\ last.log[2] = << "newSize", << -1, -1 >> >>
       /\ bounds[last.this].w = 0 /\ bounds[last.this].h = 0
       /\ \E c \in alive : bounds[c].w > 0
    \/ /\ last.name = "setBounds"
       /\ last.this \in alive
       /\ last.log[2][2].w < 0
       /\ Len(last.log) > 2
       /\ bounds[last.this].w = 0

\* ---- C30: repaint propagation
\* the component and its ancestors
SelfAndAncestors(c) == { a \in Comps : a = c \/ isParentOf(Cur, a, c) }

\* the points of rectangle r of component c, in the coordinates of its
\* top-level component, that lie within the local bounds of c and of every
\* ancestor of c
RepaintedPoints(c, r) ==
    LET top == getTopLevelComponent(Cur, c)
        off(a) == PathSum(a, top)
    IN  { p \in { Point(q.x + off(c).x, q.y + off(c).y) : q \in RectPoints(r) } :
            \A a \in SelfAndAncestors(c) :
                Point(p.x - off(a).x, p.y - off(a).y)
                    \in RectPoints(getLocalBounds(Cur, a)) }

\* the requests that the repaint made to a peer
PeerRequests ==
    SelectSeq(last.log, LAMBDA e : e[1] = "peer->repaint")

\* C30: repaint (x, y, w, h) on component C asks a peer to repaint only if
\* C and every ancestor of C are visible and the top-level ancestor has a
\* heavyweight peer; for untransformed components it then asks, once, for
\* the given rectangle translated into the coordinates of the top-level
\* component and intersected with the local bounds of C and of every
\* ancestor, and asks for nothing when that intersection is empty.
C30_RepaintPropagation ==
    last.name = "repaint" =>
        LET c == last.this
            r == last.log[2][2]
            top == getTopLevelComponent(Cur, c)
            propagates ==
                /\ \A a \in SelfAndAncestors(c) : flags[a].visibleFlag
                /\ flags[top].hasHeavyweightPeerFlag
        IN  /\ last.log[1] = << "repaint", c >>
            /\ Len(PeerRequests) <= 1
            /\ Len(PeerRequests) = 1 <=>
                   (propagates /\ RepaintedPoints(c, r) # {})
            /\ Len(PeerRequests) = 1 =>
                   /\ PeerRequests[1][2][1] = top
                   /\ ~ isEmpty(PeerRequests[1][2][2])
                   /\ RectPoints(PeerRequests[1][2][2]) = RepaintedPoints(c, r)

\* a rectangle overhanging a component two levels below the top has been
\* repainted, clipped, at a place that is not the origin
C30_Witness ==
    /\ last.name = "repaint"
    /\ Len(PeerRequests) = 1
    /\ parentComponent[last.this] # Null
    /\ parentComponent[parentComponent[last.this]] # Null
    /\ PeerRequests[1][2][2].x > 0
    /\ PeerRequests[1][2][2].w < last.log[2][2].w

\* nothing was asked of the peer because the rectangle lies outside an
\* ancestor
C30_WitnessClippedAway ==
    /\ last.name = "repaint"
    /\ Len(PeerRequests) = 0
    /\ \A a \in SelfAndAncestors(last.this) : flags[a].visibleFlag
    /\ flags[getTopLevelComponent(Cur, last.this)].hasHeavyweightPeerFlag
    /\ RectPoints(getIntersection(last.log[2][2], getLocalBounds(Cur, last.this))) # {}

\* ---- C31: the visible area, siblings included
\* d is painted on top of c: d is a descendant of c, or a later sibling of c
\* or of an ancestor of c, or a descendant of such a sibling
PaintedInFront(c, d) ==
    \/ isParentOf(Cur, c, d)
    \/ \E x \in SelfAndAncestors(c), s \in Comps :
          /\ parentComponent[x] # Null /\ parentComponent[s] = parentComponent[x]
          /\ IndexOf(childComponentList[parentComponent[x]], s)
                 > IndexOf(childComponentList[parentComponent[x]], x)
          /\ (d = s \/ isParentOf(Cur, s, d))

\* point p of component c, in the coordinates of component d of the same tree
InCoordinatesOf(c, p, d) ==
    LET top == getTopLevelComponent(Cur, c)
        from == PathSum(c, top)
        to == PathSum(d, top)
    IN  Point(p.x + from.x - to.x, p.y + from.y - to.y)

\* point p of component c is covered by d, a visible opaque component painted
\* on top of c: p lies in the bounds of d and of the components through which
\* d is painted, all of which are visible
CoveredInFront(c, p, d) ==
    LET through == IF isParentOf(Cur, c, d)
                   THEN Between(c, d)
                   ELSE Between(getTopLevelComponent(Cur, c), d)
    IN  /\ PaintedInFront(c, d)
        /\ flags[d].visibleFlag /\ flags[d].opaqueFlag
        /\ InCoordinatesOf(c, p, d) \in LocalPoints(d)
        /\ \A q \in through :
              flags[q].visibleFlag /\ InCoordinatesOf(c, p, q) \in LocalPoints(q)

\* C31: getVisibleArea(result, true) is the component's unclipped area minus
\* the regions covered by the visible opaque components painted on top of it
\* (its descendants, and the later siblings of it or of its ancestors); the
\* visible opaque components painted behind it, earlier siblings and
\* ancestors, do not reduce the result.
C31_OnlyWhatIsInFront ==
    \A c \in Comps :
        getVisibleArea(Cur, c, TRUE)
            = { p \in LocalPoints(c) :
                  /\ InsideEveryAncestor(c, p)
                  /\ ~ \E d \in Comps : CoveredInFront(c, p, d) }

\* ---- C32: toFront position
\* in the list the always-on-top children come last
OnTopLast(S, list) ==
    \A i, j \in 1 .. Len(list) :
        (S.flags[list[i]].alwaysOnTopFlag /\ ~ S.flags[list[j]].alwaysOnTopFlag)
            => i > j

\* X is where toFront puts it: last if it is always-on-top, otherwise with
\* always-on-top siblings only above it and none below it
IsAtFront(S, list, X) ==
    \E i \in 1 .. Len(list) :
        /\ list[i] = X
        /\ IF S.flags[X].alwaysOnTopFlag
           THEN i = Len(list)
           ELSE /\ \A j \in i + 1 .. Len(list) : S.flags[list[j]].alwaysOnTopFlag
                /\ \A j \in 1 .. i - 1 : ~ S.flags[list[j]].alwaysOnTopFlag

\* the list without X
Others(list, X) == SelectSeq(list, LAMBDA c : c # X)

\* C32: for a component X that has a parent and is not on the desktop, in a
\* child list where the always-on-top children come last, after
\* X.toFront(false) X is at the last index if it is always-on-top and
\* otherwise at the highest index below all always-on-top siblings; the
\* relative order of the other siblings is unchanged, and nothing changes
\* (and no callback is made) if X was already there.
C32_ToFrontPosition ==
    [][ (/\ last'.name = "toFront"
         /\ parentComponent[last'.this] # Null
         /\ ~ flags[last'.this].hasHeavyweightPeerFlag
         /\ OnTopLast(Cur, childComponentList[parentComponent[last'.this]]))
        => LET X == last'.this
               p == parentComponent[X]
               old == childComponentList[p]
               new == childComponentList'[p]
           IN  /\ IsAtFront(Cur, new, X)
               /\ Others(new, X) = Others(old, X)
               /\ Len(new) = Len(old)
               /\ [Persistent(Cur) EXCEPT !.childComponentList[p] = old]
                      = [Persistent(Cur)' EXCEPT !.childComponentList[p] = old]
               /\ IsAtFront(Cur, old, X)
                      => (Persistent(Cur)' = Persistent(Cur) /\ last'.log = << >>)
      ]_vars

\* the lowest child, not always-on-top, of a list of three that ends with an
\* always-on-top child was brought to the front and now lies under that child
C32_Witness ==
    /\ last.name = "toFront"
    /\ last.log # << >>
    /\ parentComponent[last.this] = FrontParent
    /\ ~ flags[last.this].alwaysOnTopFlag
    /\ Len(childComponentList[FrontParent]) = 3
    /\ childComponentList[FrontParent][2] = last.this
    /\ flags[childComponentList[FrontParent][3]].alwaysOnTopFlag
    /\ ~ flags[childComponentList[FrontParent][1]].alwaysOnTopFlag

\* toFront on a component that was already at the front
C32_WitnessAlreadyThere ==
    /\ last.name = "toFront"
    /\ last.log = << >>
    /\ parentComponent[last.this] = FrontParent
    /\ childComponentList[FrontParent][2] = last.this
    /\ flags[childComponentList[FrontParent][3]].alwaysOnTopFlag
    /\ ~ flags[last.this].alwaysOnTopFlag

\* ---- C33: settings reload does not accumulate
\* C33: after the StoredSettings constructor and after every call of flush(),
\* swatchColours holds exactly 24 colours, however many times flush() has
\* been called before.
C33_SwatchesDoNotAccumulate ==
    settings.call \in { "StoredSettings", "flush" }
        => Len(settings.swatchColours) = 24

\* flush has run for the third time on one object, on an array to which the
\* application had added a colour, and took one colour from the properties
C33_Witness ==
    /\ settings.call = "flush"
    /\ settings.flushes = MaxFlushes
    /\ settings.sizeBefore = numSwatchColours + MaxSwatchEdits
    /\ Len(settings.swatchColours) = numSwatchColours
    /\ settings.swatchColours[1] = 16
    /\ settings.swatchColours[numSwatchColours] = colours(numSwatchColours + 1)

====
